---- MODULE Spec2Model ----
(***************************************************************************)
(* protomux-rpc-router: the per-key limiter engines (concurrency limiter,  *)
(* token-bucket rate limiter), the middleware composition algebra and the  *)
(* router lifecycle / per-request pipeline.                                *)
(*                                                                         *)
(* The module holds three state machines over disjoint variables:          *)
(*   SpecConc   - one ConcurrentLimitMiddleware instance                   *)
(*   SpecRate   - one RateLimitMiddleware instance                         *)
(*   SpecRouter - one ProtomuxRpcRouter with its middleware                *)
(* Each specification leaves the variables of the others at their idle     *)
(* values.                                                                 *)
(***************************************************************************)
EXTENDS Integers, Sequences, FiniteSets, TLC

\* ------------------------------------------------------------------ bounds
\* Largest limiter capacity tried (capacities 1..MaxCapacity).
MaxCapacity == 2
\* Number of requests that arrive at the concurrency limiter.
MaxConcReqs == 4
\* Number of events (requests, ticks, destroy) the rate limiter sees.
MaxRateEvents == 7

\* The limiter keys (decideKey results): two peers.
Keys == {"k1", "k2"}

VARIABLES
    \* ConcurrentLimitMiddleware
    concCapacity,    \* this._capacity
    activeMap,       \* this._activeMap : key -> active
    concDestroyed,   \* this.destroyed
    concReq,         \* the onrequest calls so far, in arrival order
    concThrown,      \* what the last destroy() call did
    \* limiter instances side by side
    limiters,        \* the limiter objects constructed, each with its own fields
    maps,            \* the Map objects made by `new Map()`
    \* RateLimitMiddleware
    rateCapacity,    \* this.capacity
    tokenMap,        \* this._tokenMap : key -> tokens
    rateDestroyed,   \* this.destroyed
    rateLog,         \* the events so far: onrequest calls, ticks, destroy calls
    \* ProtomuxRpcRouter (extends ReadyResource)
    globalMw,        \* this._middleware : the global chain, in use() order
    methods,         \* this.methods : the registrations, in Map insertion order
    nextMw,          \* the next middleware object handed to use()
    nrMethodCalls,   \* number of method() calls so far
    nrLateConfig,    \* number of use() / method() calls made after ready() or close()
    opening,         \* this.opening : the promise of ready(), null before
    closing,         \* this.closing : the promise of close(), null before
    opened,          \* this.opened : the router has reached open
    closed,          \* this.closed : the router has reached closed
    openTask,        \* where the running _open() is
    closeTask,       \* where the running close() / _close() is
    hookLog,         \* the onopen / onclose hook invocations and their outcomes
    openRejection,   \* the error ready() rejected with
    closeRejection,  \* the error close() rejected with
    lastAttach,      \* what the last handleConnection call did
    conns,           \* the connections served: the responders installed on each
    reqs,            \* the inbound calls so far, in arrival order
    stats,           \* this.stats
    heap,            \* the ctx objects made by the respond callbacks
    \* encoding middleware
    encCalls,        \* the onrequest calls of encoding middleware so far
    \* capability gate
    capability,      \* the constructor's {namespace, capability}, or none
    sessions,        \* the transport session of each connection
    capabilityErrors \* the 'capability-error' events emitted: their connections

concVars == <<concCapacity, activeMap, concDestroyed, concReq, concThrown>>
rateVars == <<rateCapacity, tokenMap, rateDestroyed, rateLog>>
configVars == <<globalMw, methods, nextMw, nrMethodCalls, nrLateConfig>>
lifeVars == <<opening, closing, opened, closed, openTask, closeTask, hookLog,
              openRejection, closeRejection>>
instVars == <<limiters, maps>>
reqVars == <<conns, reqs, stats, heap>>
gateVars == <<capability, sessions, capabilityErrors>>
encVars == <<encCalls>>
routerVars == <<configVars, lifeVars, instVars, lastAttach, reqVars, gateVars, encVars>>
vars == <<concVars, rateVars, routerVars>>

\* ------------------------------------------------------------- JS Map
EmptyMap == [x \in {} |-> 0]
MapSet(map, key, value) ==
    [x \in (DOMAIN map) \cup {key} |-> IF x = key THEN value ELSE map[x]]
MapDelete(map, key) == [x \in (DOMAIN map) \ {key} |-> map[x]]

\* ============================================================ concurrency
\* ConcurrentLimitMiddleware._tryAcquire: the admission decision and the map
\* it leaves.
Conc_tryAcquireOffByOne(map, capacity, key) ==
    LET active == IF key \in DOMAIN map THEN map[key] ELSE 0
    IN  IF active <= capacity
        THEN [ok |-> TRUE, map |-> MapSet(map, key, active + 1)]
        ELSE [ok |-> FALSE, map |-> map]

Conc_tryAcquire(map, capacity, key) ==
    LET active == IF key \in DOMAIN map THEN map[key] ELSE 0
    IN  IF active < capacity
        THEN [ok |-> TRUE, map |-> MapSet(map, key, active + 1)]
        ELSE [ok |-> FALSE, map |-> map]

\* ConcurrentLimitMiddleware._release.
Conc_releaseNever(map, key) == map

Conc_releaseKeepsZero(map, key) ==
    IF key \notin DOMAIN map
    THEN map
    ELSE MapSet(map, key, map[key] - 1)

\* _release without the check for an absent key: the count starts from 0.
Conc_releaseAbsentAsZero(map, key) ==
    LET active == (IF key \in DOMAIN map THEN map[key] ELSE 0) - 1
    IN  IF active = 0 THEN MapDelete(map, key) ELSE MapSet(map, key, active)

Conc_release(map, key) ==
    IF key \notin DOMAIN map
    THEN map
    ELSE LET active == map[key] - 1
         IN  IF active = 0 THEN MapDelete(map, key) ELSE MapSet(map, key, active)

\* The requests of `calls` for `key` whose next() is pending.
InFlight(calls, key) ==
    {i \in 1..Len(calls) : calls[i].key = key /\ calls[i].st = "inflight"}

ConcInit ==
    /\ concCapacity \in 1..MaxCapacity
    /\ activeMap = EmptyMap
    /\ concDestroyed = FALSE
    /\ concReq = <<>>
    /\ concThrown = "none"

ConcIdle ==
    /\ concCapacity = 1
    /\ activeMap = EmptyMap
    /\ concDestroyed = FALSE
    /\ concReq = <<>>
    /\ concThrown = "none"

\* onrequest with the CONCURRENT_LIMIT_EXCEEDED throw inside the try block:
\* the finally releases the key of a request that was refused.
ConcOnRequestReleasesOnReject(key) ==
    /\ Len(concReq) < MaxConcReqs
    /\ LET pre == Cardinality(InFlight(concReq, key))
           got == Conc_tryAcquire(activeMap, concCapacity, key)
       IN  IF concDestroyed
           THEN /\ concReq' = Append(concReq,
                      [key |-> key, pre |-> pre,
                       st |-> "CONCURRENT_LIMIT_MIDDLEWARE_DESTROYED"])
                /\ UNCHANGED activeMap
           ELSE IF ~got.ok
           THEN /\ concReq' = Append(concReq,
                      [key |-> key, pre |-> pre,
                       st |-> "CONCURRENT_LIMIT_EXCEEDED"])
                /\ activeMap' = Conc_release(activeMap, key)
           ELSE /\ concReq' = Append(concReq,
                      [key |-> key, pre |-> pre, st |-> "inflight"])
                /\ activeMap' = got.map
    /\ UNCHANGED <<concCapacity, concDestroyed, concThrown, rateVars, routerVars>>

\* onrequest(ctx, next) up to its `await next()`: the destroyed check, the
\* key, _tryAcquire, and either the throw or the call of next.  `pre` is the
\* number of requests in flight for the key when the call arrived.
ConcOnRequest(key) ==
    /\ Len(concReq) < MaxConcReqs
    /\ LET pre == Cardinality(InFlight(concReq, key))
           got == Conc_tryAcquire(activeMap, concCapacity, key)
       IN  IF concDestroyed
           THEN /\ concReq' = Append(concReq,
                      [key |-> key, pre |-> pre,
                       st |-> "CONCURRENT_LIMIT_MIDDLEWARE_DESTROYED"])
                /\ UNCHANGED activeMap
           ELSE IF ~got.ok
           THEN /\ concReq' = Append(concReq,
                      [key |-> key, pre |-> pre,
                       st |-> "CONCURRENT_LIMIT_EXCEEDED"])
                /\ UNCHANGED activeMap
           ELSE /\ concReq' = Append(concReq,
                      [key |-> key, pre |-> pre, st |-> "inflight"])
                /\ activeMap' = got.map
    /\ UNCHANGED <<concCapacity, concDestroyed, concThrown, rateVars, routerVars>>

\* onrequest with the release after `await next()` instead of in a finally:
\* a next() that rejects skips it.
ConcNextSettlesNoFinally(i, ok) ==
    /\ i \in 1..Len(concReq)
    /\ concReq[i].st = "inflight"
    /\ activeMap' = IF ok THEN Conc_release(activeMap, concReq[i].key) ELSE activeMap
    /\ concReq' = [concReq EXCEPT ![i].st = IF ok THEN "fulfilled" ELSE "rejected"]
    /\ UNCHANGED <<concCapacity, concDestroyed, concThrown, rateVars, routerVars>>

\* next() of request i settles (fulfils when ok, rejects otherwise): the
\* finally block releases the key and the outcome is passed on.
ConcNextSettles(i, ok) ==
    /\ i \in 1..Len(concReq)
    /\ concReq[i].st = "inflight"
    /\ activeMap' = Conc_release(activeMap, concReq[i].key)
    /\ concReq' = [concReq EXCEPT ![i].st = IF ok THEN "fulfilled" ELSE "rejected"]
    /\ UNCHANGED <<concCapacity, concDestroyed, concThrown, rateVars, routerVars>>

\* destroy().
ConcDestroy ==
    /\ IF concDestroyed
       THEN /\ concThrown' = "CONCURRENT_LIMIT_MIDDLEWARE_DESTROYED"
            /\ UNCHANGED <<concDestroyed, activeMap>>
       ELSE /\ concDestroyed' = TRUE
            /\ activeMap' = EmptyMap
            /\ concThrown' = "returned"
    /\ UNCHANGED <<concCapacity, concReq, rateVars, routerVars>>

ConcNext ==
    \/ \E key \in Keys : ConcOnRequest(key)
    \/ \E i \in 1..MaxConcReqs, ok \in BOOLEAN : ConcNextSettles(i, ok)
    \/ ConcDestroy

\* ================================================================== rate
\* RateLimitMiddleware._tryAcquire.
Rate_tryAcquireZeroOk(map, capacity, key) ==
    LET tokens == IF key \in DOMAIN map THEN map[key] ELSE capacity
    IN  IF tokens >= 0
        THEN [ok |-> TRUE, map |-> MapSet(map, key, tokens - 1)]
        ELSE [ok |-> FALSE, map |-> map]

Rate_tryAcquireOneBucket(map, capacity, key) ==
    LET tokens == IF "k1" \in DOMAIN map THEN map["k1"] ELSE capacity
    IN  IF tokens > 0
        THEN [ok |-> TRUE, map |-> MapSet(map, "k1", tokens - 1)]
        ELSE [ok |-> FALSE, map |-> map]

Rate_tryAcquireKeepsToken(map, capacity, key) ==
    LET tokens == IF key \in DOMAIN map THEN map[key] ELSE capacity
    IN  IF tokens > 0
        THEN [ok |-> TRUE, map |-> MapSet(map, key, tokens)]
        ELSE [ok |-> FALSE, map |-> map]

Rate_tryAcquire(map, capacity, key) ==
    LET tokens == IF key \in DOMAIN map THEN map[key] ELSE capacity
    IN  IF tokens > 0
        THEN [ok |-> TRUE, map |-> MapSet(map, key, tokens - 1)]
        ELSE [ok |-> FALSE, map |-> map]

\* RateLimitMiddleware._refill: every resident key gets one token; a key
\* that reaches the capacity is deleted.
Rate_refillNoEvict(map, capacity) == [k \in DOMAIN map |-> map[k] + 1]

Rate_refillEvictsLate(map, capacity) ==
    LET kept == {k \in DOMAIN map : ~(map[k] + 1 > capacity)}
    IN  [k \in kept |-> map[k] + 1]

\* A refill that fills every bucket: all keys are evicted.
Rate_refillFull(map, capacity) == [k \in {} |-> 0]

Rate_refill(map, capacity) ==
    LET kept == {k \in DOMAIN map : ~(map[k] + 1 >= capacity)}
    IN  [k \in kept |-> map[k] + 1]

RateInit ==
    /\ rateCapacity \in 1..MaxCapacity
    /\ tokenMap = EmptyMap
    /\ rateDestroyed = FALSE
    /\ rateLog = <<>>

RateIdle ==
    /\ rateCapacity = 1
    /\ tokenMap = EmptyMap
    /\ rateDestroyed = FALSE
    /\ rateLog = <<>>

\* One entry of rateLog.  resident/tokens describe the key's map entry when
\* the event began.
RateEvent(ev, key, resident, tokens, res) ==
    [ev |-> ev, key |-> key, resident |-> resident, tokens |-> tokens, res |-> res]

\* onrequest(ctx, next) up to the call of next.
RateOnRequest(key) ==
    /\ Len(rateLog) < MaxRateEvents
    /\ LET got == Rate_tryAcquire(tokenMap, rateCapacity, key)
           resident == key \in DOMAIN tokenMap
           tokens == IF resident THEN tokenMap[key] ELSE 0
       IN  IF rateDestroyed
           THEN /\ rateLog' = Append(rateLog, RateEvent("req", key, resident, tokens,
                                        "RATE_LIMIT_MIDDLEWARE_DESTROYED"))
                /\ UNCHANGED tokenMap
           ELSE IF ~got.ok
           THEN /\ rateLog' = Append(rateLog, RateEvent("req", key, resident, tokens,
                                        "RATE_LIMIT_EXCEEDED"))
                /\ UNCHANGED tokenMap
           ELSE /\ rateLog' = Append(rateLog, RateEvent("req", key, resident, tokens,
                                        "next"))
                /\ tokenMap' = got.map
    /\ UNCHANGED <<rateCapacity, rateDestroyed, concVars, routerVars>>

\* The setInterval callback: one refill tick.  destroy() clears the timer.
RateTick ==
    /\ Len(rateLog) < MaxRateEvents
    /\ ~rateDestroyed
    /\ tokenMap' = Rate_refill(tokenMap, rateCapacity)
    /\ rateLog' = Append(rateLog, RateEvent("tick", "-", FALSE, 0, "-"))
    /\ UNCHANGED <<rateCapacity, rateDestroyed, concVars, routerVars>>

\* destroy().
RateDestroyLeavesMap ==
    /\ Len(rateLog) < MaxRateEvents
    /\ IF rateDestroyed
       THEN /\ rateLog' = Append(rateLog, RateEvent("destroy", "-", FALSE, 0,
                                    "RATE_LIMIT_MIDDLEWARE_DESTROYED"))
            /\ UNCHANGED <<rateDestroyed, tokenMap>>
       ELSE /\ rateDestroyed' = TRUE
            /\ UNCHANGED tokenMap
            /\ rateLog' = Append(rateLog, RateEvent("destroy", "-", FALSE, 0, "returned"))
    /\ UNCHANGED <<rateCapacity, concVars, routerVars>>

RateDestroy ==
    /\ Len(rateLog) < MaxRateEvents
    /\ IF rateDestroyed
       THEN /\ rateLog' = Append(rateLog, RateEvent("destroy", "-", FALSE, 0,
                                    "RATE_LIMIT_MIDDLEWARE_DESTROYED"))
            /\ UNCHANGED <<rateDestroyed, tokenMap>>
       ELSE /\ rateDestroyed' = TRUE
            /\ tokenMap' = EmptyMap
            /\ rateLog' = Append(rateLog, RateEvent("destroy", "-", FALSE, 0, "returned"))
    /\ UNCHANGED <<rateCapacity, concVars, routerVars>>

RateNext ==
    \/ \E key \in Keys : RateOnRequest(key)
    \/ RateTick
    \/ RateDestroy

\* next() of a request of `key` that onrequest handed on settles.  onrequest
\* returned next()'s promise and has no code after it: nothing of the
\* limiter changes.
AwaitingNext(key) ==
    Cardinality({i \in 1..Len(rateLog) :
                    rateLog[i].ev = "req" /\ rateLog[i].key = key /\ rateLog[i].res = "next"})
    - Cardinality({i \in 1..Len(rateLog) :
                    rateLog[i].ev = "settle" /\ rateLog[i].key = key})

RateNextSettlesReturnsToken(key, ok) ==
    /\ Len(rateLog) < MaxRateEvents
    /\ AwaitingNext(key) > 0
    /\ rateLog' = Append(rateLog,
          RateEvent("settle", key, key \in DOMAIN tokenMap,
                    IF key \in DOMAIN tokenMap THEN tokenMap[key] ELSE 0,
                    IF ok THEN "fulfilled" ELSE "rejected"))
    /\ tokenMap' = IF key \in DOMAIN tokenMap
                   THEN MapSet(tokenMap, key, tokenMap[key] + 1)
                   ELSE tokenMap
    /\ UNCHANGED <<rateCapacity, rateDestroyed, concVars, routerVars>>

RateNextSettles(key, ok) ==
    /\ Len(rateLog) < MaxRateEvents
    /\ AwaitingNext(key) > 0
    /\ rateLog' = Append(rateLog,
          RateEvent("settle", key, key \in DOMAIN tokenMap,
                    IF key \in DOMAIN tokenMap THEN tokenMap[key] ELSE 0,
                    IF ok THEN "fulfilled" ELSE "rejected"))
    /\ UNCHANGED <<tokenMap, rateCapacity, rateDestroyed, concVars, routerVars>>

RateSettleNext ==
    \/ \E key \in Keys : RateOnRequest(key)
    \/ RateTick
    \/ RateDestroy
    \/ \E key \in Keys, ok \in BOOLEAN : RateNextSettles(key, ok)

\* ------------------------------------------------- one limiter at a time
\* Either limiter is exercised, for every capacity: a behaviour stays with
\* the limiter it started with.
ConcUntouched == concReq = <<>> /\ concThrown = "none"
RateUntouched == rateLog = <<>>

LimConcOnRequest(key) == RateUntouched /\ ConcOnRequest(key)
LimConcNextSettles(i, ok) == RateUntouched /\ ConcNextSettles(i, ok)
LimConcDestroy == RateUntouched /\ ConcDestroy
LimRateOnRequest(key) == ConcUntouched /\ RateOnRequest(key)
LimRateTick == ConcUntouched /\ RateTick
LimRateDestroy == ConcUntouched /\ RateDestroy

LimitersNext ==
    \/ \E key \in Keys : LimConcOnRequest(key)
    \/ \E i \in 1..MaxConcReqs, ok \in BOOLEAN : LimConcNextSettles(i, ok)
    \/ LimConcDestroy
    \/ \E key \in Keys : LimRateOnRequest(key)
    \/ LimRateTick
    \/ LimRateDestroy

\* ------------------------------------------------ limiters side by side
\* Two limiter objects, as two methods get when each is given a limiter of
\* its own.  The constructors of both classes make the object's Map with
\* `new Map()`: a Map object is its place in maps.
MaxInstEvents == 5

Classes == {"concurrent", "rate"}

newMapShared(objects) == 1
newMap(objects) == Len(objects) + 1

\* new ConcurrentLimitMiddleware(capacity, decideKey) and
\* new RateLimitMiddleware(capacity, intervalMs, decideKey).  log is what the
\* object was asked and answered so far; inflight are the requests of the
\* log whose next() is pending.
Limiter(class, capacity, objects) ==
    [class |-> class, capacity |-> capacity, map |-> newMap(objects),
     destroyed |-> FALSE, log |-> <<>>, inflight |-> {}]

NoLimiters == limiters = <<>> /\ maps = <<>>

LimitersInit ==
    \E c1 \in Classes, c2 \in Classes, n1 \in 1..MaxCapacity, n2 \in 1..MaxCapacity :
        /\ limiters = <<Limiter(c1, n1, <<>>), Limiter(c2, n2, <<EmptyMap>>)>>
        /\ maps = <<EmptyMap, EmptyMap>>

LimiterEvents == Len(limiters[1].log) + Len(limiters[2].log)

LimiterEvent(ev, key, res) == [ev |-> ev, key |-> key, res |-> res]

\* _tryAcquire of either class.
Limiter_tryAcquire(class, map, capacity, key) ==
    IF class = "rate"
    THEN Rate_tryAcquire(map, capacity, key)
    ELSE Conc_tryAcquire(map, capacity, key)

\* What onrequest throws in place of calling next.
Limiter_refusal(class, destroyed) ==
    IF class = "rate"
    THEN IF destroyed THEN "RATE_LIMIT_MIDDLEWARE_DESTROYED" ELSE "RATE_LIMIT_EXCEEDED"
    ELSE IF destroyed THEN "CONCURRENT_LIMIT_MIDDLEWARE_DESTROYED"
         ELSE "CONCURRENT_LIMIT_EXCEEDED"

\* onrequest(ctx, next) of limiter i, up to the call of next.
LimiterOnRequest(i, key) ==
    /\ LimiterEvents < MaxInstEvents
    /\ LET limiter == limiters[i]
           got == Limiter_tryAcquire(limiter.class, maps[limiter.map],
                                     limiter.capacity, key)
           res == IF ~limiter.destroyed /\ got.ok
                  THEN "next"
                  ELSE Limiter_refusal(limiter.class, limiter.destroyed)
       IN  /\ limiters' = [limiters EXCEPT
                 ![i].log = Append(@, LimiterEvent("req", key, res)),
                 ![i].inflight = IF res = "next" /\ limiter.class = "concurrent"
                                 THEN @ \cup {Len(limiter.log) + 1}
                                 ELSE @]
           /\ maps' = IF res = "next"
                      THEN [maps EXCEPT ![limiter.map] = got.map]
                      ELSE maps
    /\ UNCHANGED <<concVars, rateVars, configVars, lifeVars, lastAttach, reqVars,
                   gateVars, encVars>>

\* The setInterval callback of rate limiter i.  destroy() clears the timer.
LimiterTick(i) ==
    /\ LimiterEvents < MaxInstEvents
    /\ limiters[i].class = "rate"
    /\ ~limiters[i].destroyed
    /\ maps' = [maps EXCEPT ![limiters[i].map] = Rate_refill(@, limiters[i].capacity)]
    /\ limiters' = [limiters EXCEPT ![i].log = Append(@, LimiterEvent("tick", "-", "-"))]
    /\ UNCHANGED <<concVars, rateVars, configVars, lifeVars, lastAttach, reqVars,
                   gateVars, encVars>>

\* next() of request j of concurrency limiter i settles: the finally block
\* releases the key.
LimiterNextSettles(i, j) ==
    /\ LimiterEvents < MaxInstEvents
    /\ j \in limiters[i].inflight
    /\ maps' = [maps EXCEPT
                   ![limiters[i].map] = Conc_release(@, limiters[i].log[j].key)]
    /\ limiters' = [limiters EXCEPT
          ![i].log = Append(@, LimiterEvent("settle", limiters[i].log[j].key, "-")),
          ![i].inflight = @ \ {j}]
    /\ UNCHANGED <<concVars, rateVars, configVars, lifeVars, lastAttach, reqVars,
                   gateVars, encVars>>

\* destroy() of limiter i.
LimiterDestroy(i) ==
    /\ LimiterEvents < MaxInstEvents
    /\ IF limiters[i].destroyed
       THEN /\ limiters' = [limiters EXCEPT ![i].log =
                   Append(@, LimiterEvent("destroy", "-",
                                          Limiter_refusal(limiters[i].class, TRUE)))]
            /\ UNCHANGED maps
       ELSE /\ limiters' = [limiters EXCEPT
                   ![i].destroyed = TRUE,
                   ![i].log = Append(@, LimiterEvent("destroy", "-", "returned"))]
            /\ maps' = [maps EXCEPT ![limiters[i].map] = EmptyMap]
    /\ UNCHANGED <<concVars, rateVars, configVars, lifeVars, lastAttach, reqVars,
                   gateVars, encVars>>

InstancesNext ==
    \/ \E i \in DOMAIN limiters, key \in Keys : LimiterOnRequest(i, key)
    \/ \E i \in DOMAIN limiters : LimiterTick(i)
    \/ \E i \in DOMAIN limiters, j \in 1..MaxInstEvents : LimiterNextSettles(i, j)
    \/ \E i \in DOMAIN limiters : LimiterDestroy(i)

\* ================================================================ errors
\* The values that travel as errors: null, a plain error (thrown by the
\* named hook of the named middleware), an AggregateError with its errors.
Null == [kind |-> "null"]
HookError(hook, mw) == [kind |-> "error", hook |-> hook, mw |-> mw]
AggregateError(errors) == [kind |-> "aggregate", errors |-> errors]

\* ProtomuxRpcRouterError.aggregate(...errors): nested aggregates are
\* spliced, null is skipped, the order is kept.
RECURSIVE CombinedErrors(_)
CombinedErrors(errors) ==
    IF errors = <<>>
    THEN <<>>
    ELSE LET error == Head(errors)
             first == IF error.kind = "aggregate" THEN error.errors
                      ELSE IF error.kind = "null" THEN <<>>
                      ELSE <<error>>
         IN  first \o CombinedErrors(Tail(errors))

RECURSIVE FirstErrorOnly(_)
FirstErrorOnly(errors) ==
    IF errors = <<>>
    THEN <<>>
    ELSE LET error == Head(errors)
         IN  IF error.kind = "aggregate" THEN error.errors
             ELSE IF error.kind = "null" THEN FirstErrorOnly(Tail(errors))
             ELSE <<error>>

aggregateKeepsFirst(errors) == AggregateError(FirstErrorOnly(errors))

aggregate(errors) == AggregateError(CombinedErrors(errors))

\* ============================================================ middleware
\* A middleware object is named by a number; a composed middleware is the
\* sequence of the middleware objects folded into it, in compose order.
\* Middleware.NOOP contributes no hook, Middleware.wrap keeps the object's
\* hooks, Middleware.compose(acc, middleware) runs acc's onopen before
\* middleware's and middleware's onclose before acc's.
NOOP == <<>>
Middleware_wrap(middleware) == <<middleware>>
Middleware_composeReversed(acc, middleware) == middleware \o acc
Middleware_compose(acc, middleware) == acc \o middleware

\* compose's onclose, for a chain whose hooks in `failed` throw: the hooks
\* it calls, in call order, and what it throws (Null when nothing).  It calls
\* middleware.onclose() and then acc.onclose(), each in its own try/catch
\* that folds the error into aggregateError.
RECURSIVE compose_oncloseStopsOnError(_, _)
RECURSIVE compose_oncloseAccFirst(_, _)
RECURSIVE compose_onclose(_, _)
\* compose's onclose with its two try blocks swapped: acc.onclose() first.
compose_oncloseAccFirst(chain, failed) ==
    IF chain = NOOP
    THEN [calls |-> <<>>, thrown |-> Null]
    ELSE LET middleware == chain[Len(chain)]
             acc == SubSeq(chain, 1, Len(chain) - 1)
             own == IF middleware \in failed
                    THEN aggregate(<<Null, HookError("onclose", middleware)>>)
                    ELSE Null
             inner == compose_oncloseAccFirst(acc, failed)
         IN  [calls |-> inner.calls \o <<middleware>>,
              thrown |-> IF inner.thrown.kind # "null"
                         THEN aggregate(<<inner.thrown, own>>)
                         ELSE own]

compose_oncloseStopsOnError(chain, failed) ==
    IF chain = NOOP
    THEN [calls |-> <<>>, thrown |-> Null]
    ELSE LET middleware == chain[Len(chain)]
             acc == SubSeq(chain, 1, Len(chain) - 1)
             inner == compose_onclose(acc, failed)
         IN  IF middleware \in failed
             THEN [calls |-> <<middleware>>, thrown |-> HookError("onclose", middleware)]
             ELSE [calls |-> <<middleware>> \o inner.calls, thrown |-> inner.thrown]

compose_onclose(chain, failed) ==
    IF chain = NOOP
    THEN [calls |-> <<>>, thrown |-> Null]
    ELSE LET middleware == chain[Len(chain)]
             acc == SubSeq(chain, 1, Len(chain) - 1)
             own == IF middleware \in failed
                    THEN aggregate(<<Null, HookError("onclose", middleware)>>)
                    ELSE Null
             inner == compose_onclose(acc, failed)
         IN  [calls |-> <<middleware>> \o inner.calls,
              thrown |-> IF inner.thrown.kind # "null"
                         THEN aggregate(<<own, inner.thrown>>)
                         ELSE own]

\* ================================================================ router
MethodNames == {"a", "b"}
\* Number of middleware objects handed to use().
MaxMw == 4
\* Number of method() calls.
MaxMethodCalls == 2
\* Number of use() / method() calls made after ready() or close() was called.
MaxLateConfig == 1

NoAttach == [state |-> "new", res |-> "none", responders |-> <<>>]

IdleTask == [phase |-> "idle", c |-> 0, chain |-> <<>>, i |-> 0, running |-> FALSE,
             err |-> Null, failed |-> {}]

NoCapability == [namespace |-> "none", capability |-> "none"]

RouterConstructor(options) ==
    /\ capability = options
    /\ sessions = <<>>
    /\ capabilityErrors = <<>>
    /\ globalMw = NOOP
    /\ methods = <<>>
    /\ nextMw = 1
    /\ nrMethodCalls = 0
    /\ nrLateConfig = 0
    /\ opening = "null"
    /\ closing = "null"
    /\ opened = FALSE
    /\ closed = FALSE
    /\ openTask = IdleTask
    /\ closeTask = IdleTask
    /\ hookLog = <<>>
    /\ openRejection = Null
    /\ closeRejection = Null
    /\ lastAttach = NoAttach
    /\ conns = <<>>
    /\ reqs = <<>>
    /\ stats = [nrRequests |-> 0, nrErrors |-> 0, nrHandlerErrors |-> 0]
    /\ heap = <<>>
    /\ encCalls = <<>>

\* new ProtomuxRpcRouter()
RouterInit == RouterConstructor(NoCapability)

\* The state of the lifecycle's state machine, from the fields above.
LifecycleState ==
    IF closed THEN "closed"
    ELSE IF closing # "null" THEN "closing"
    ELSE IF opened THEN "open"
    ELSE IF opening # "null" THEN "opening"
    ELSE "new"

\* The loop `for (const registration of this.methods.values())`: the
\* registration the iterator gives after the one at position c (0 before the
\* first), 0 when the Map has no more.  The iterator reads the Map as it is
\* when the loop asks, and a position that was passed is not given again.
NextRegistrationLastFirst(c) ==
    IF c = 0 THEN Len(methods) ELSE c - 1

NextRegistration(c) ==
    IF c < Len(methods) THEN c + 1 ELSE 0

\* The configuration calls.  use(), method() and registration.use() have no
\* guard in the code.  The README asks for ready() to be called "after
\* registering all methods and middlewares": SetUp is that use, the calls
\* made before ready() and close(), and Late are the calls made after.
\* In set-up the calls come in one order: the global use() calls, then each
\* method() call followed by the use() calls on its registration (the
\* middleware objects are interchangeable, so another order of the calls
\* gives the same chains with the objects renamed).
SetUp(inOrder) ==
    /\ opening = "null" /\ closing = "null"
    /\ inOrder
    /\ UNCHANGED nrLateConfig

Late ==
    /\ ~(opening = "null" /\ closing = "null")
    /\ nrLateConfig < MaxLateConfig
    /\ nrLateConfig' = nrLateConfig + 1

HookEvent(src, hook, mw, ev) == [src |-> src, hook |-> hook, mw |-> mw, ev |-> ev]

\* router.use(middleware)
RouterUse ==
    /\ nextMw <= MaxMw
    /\ globalMw' = Middleware_compose(globalMw, Middleware_wrap(nextMw))
    /\ nextMw' = nextMw + 1
    /\ UNCHANGED <<methods, nrMethodCalls, lifeVars, lastAttach, reqVars, concVars, rateVars, instVars, encVars, gateVars>>

Use == RouterUse /\ SetUp(methods = <<>>)
LateUse == RouterUse /\ Late

\* router.method(name, options, handler): Map.set keeps the place of a name
\* that is already registered and appends a new one.
RouterMethod(name) ==
    /\ nrMethodCalls < MaxMethodCalls
    /\ nrMethodCalls' = nrMethodCalls + 1
    /\ LET registration == [name |-> name, mw |-> NOOP]
           at == {n \in 1..Len(methods) : methods[n].name = name}
       IN  methods' = IF at = {}
                      THEN Append(methods, registration)
                      ELSE [n \in 1..Len(methods) |->
                               IF n \in at THEN registration ELSE methods[n]]
    /\ UNCHANGED <<globalMw, nextMw, lifeVars, lastAttach, reqVars, concVars, rateVars, instVars, encVars, gateVars>>

Method(name) == RouterMethod(name) /\ SetUp(TRUE)
LateMethod(name) == RouterMethod(name) /\ Late

\* registration.use(middleware), on the n-th registration
MethodRegistrationUse(n) ==
    /\ n \in 1..Len(methods)
    /\ nextMw <= MaxMw
    /\ methods' = [methods EXCEPT
                      ![n].mw = Middleware_compose(@, Middleware_wrap(nextMw))]
    /\ nextMw' = nextMw + 1
    /\ UNCHANGED <<globalMw, nrMethodCalls, lifeVars, lastAttach, reqVars, concVars, rateVars, instVars, encVars, gateVars>>

RegistrationUse(n) == MethodRegistrationUse(n) /\ SetUp(n = Len(methods))
LateRegistrationUse(n) == MethodRegistrationUse(n) /\ Late

\* ProtomuxRpcRouter extends ReadyResource, which keeps opening, opened,
\* closing and closed and calls _open() and _close().  ReadyResource is a
\* package of its own; what ready() and close() do around _open() and
\* _close() is the state machine of the specification, new -> opening ->
\* open -> closing -> closed, and the calls made are the calls it
\* describes: ready() on a new router and close() on an open one.

\* ready(): new -> opening.  _open() is called, which calls the onopen of
\* the global chain.
Ready ==
    /\ LifecycleState = "new"
    /\ opening' = "pending"
    /\ openTask' = [IdleTask EXCEPT !.phase = "open", !.chain = globalMw]
    /\ UNCHANGED <<closing, opened, closed, closeTask, hookLog, openRejection,
                   closeRejection, configVars, lastAttach, reqVars, concVars, rateVars, instVars, encVars, gateVars>>

\* _open() after an await.  Inside a chain compose's onopen calls the
\* onopen of its next middleware.  After a chain (the global one first, an
\* empty one as well) the loop takes the next registration and calls its
\* onopen, which reads the registration's chain as it is now; a registration
\* the loop has passed is not opened again.  After the last registration
\* _open() returns.
OpenStart ==
    /\ openTask.phase = "open"
    /\ ~openTask.running
    /\ IF openTask.i < Len(openTask.chain)
       THEN /\ openTask' = [openTask EXCEPT !.i = @ + 1, !.running = TRUE]
            /\ hookLog' = Append(hookLog,
                  HookEvent("open", "onopen", openTask.chain[openTask.i + 1], "start"))
       ELSE IF NextRegistration(openTask.c) # 0
       THEN LET n == NextRegistration(openTask.c)
            IN  /\ openTask' = [openTask EXCEPT !.c = n, !.chain = methods[n].mw, !.i = 0]
                /\ UNCHANGED hookLog
       ELSE /\ openTask' = [openTask EXCEPT !.phase = "returned"]
            /\ UNCHANGED hookLog
    /\ UNCHANGED <<opening, opened, closing, closed, closeTask, openRejection, closeRejection,
                   configVars, lastAttach, reqVars, concVars, rateVars, instVars, encVars, gateVars>>

\* _open() has returned: opening -> open, and ready() is fulfilled.
OpenReturned ==
    /\ openTask.phase = "returned"
    /\ openTask' = [openTask EXCEPT !.phase = "done"]
    /\ opened' = TRUE
    /\ opening' = "fulfilled"
    /\ UNCHANGED <<hookLog, closing, closed, closeTask, openRejection, closeRejection,
                   configVars, lastAttach, reqVars, concVars, rateVars, instVars, encVars, gateVars>>

\* The running onopen hook settles.  When it throws, compose's catch closes
\* what the same chain opened before it.
OpenFinish(ok) ==
    /\ openTask.phase = "open"
    /\ openTask.running
    /\ LET mw == openTask.chain[openTask.i]
       IN  IF ok
           THEN /\ openTask' = [openTask EXCEPT !.running = FALSE]
                /\ hookLog' = Append(hookLog, HookEvent("open", "onopen", mw, "returned"))
           ELSE /\ openTask' = [openTask EXCEPT
                                   !.running = FALSE, !.phase = "rollback",
                                   !.err = HookError("onopen", mw),
                                   !.chain = SubSeq(openTask.chain, 1, openTask.i - 1),
                                   !.i = 0, !.failed = {}]
                /\ hookLog' = Append(hookLog, HookEvent("open", "onopen", mw, "threw"))
    /\ UNCHANGED <<opening, closing, opened, closed, closeTask, openRejection,
                   closeRejection, configVars, lastAttach, reqVars, concVars, rateVars, instVars, encVars, gateVars>>

\* What compose's onopen throws after its catch block ran acc.onclose():
\* safetyCatch drops what acc.onclose() threw and the onopen error is thrown
\* on.
compose_onopenCatch(error, chain, failed) == error

\* compose's catch block: acc.onclose() goes on to the next onclose of the
\* middleware opened before the failing one (openTask.chain is that acc);
\* when none is left the error is thrown on and _open(), which has no
\* catch, rejects with it.
RollbackStart ==
    /\ openTask.phase = "rollback"
    /\ ~openTask.running
    /\ IF openTask.i < Len(compose_onclose(openTask.chain, openTask.failed).calls)
       THEN /\ openTask' = [openTask EXCEPT !.i = @ + 1, !.running = TRUE]
            /\ hookLog' = Append(hookLog,
                  HookEvent("rollback", "onclose",
                     compose_onclose(openTask.chain, openTask.failed).calls[openTask.i + 1],
                     "start"))
       ELSE /\ openTask' = [openTask EXCEPT
                                !.phase = "threw",
                                !.err = compose_onopenCatch(openTask.err, openTask.chain,
                                                            openTask.failed)]
            /\ UNCHANGED hookLog
    /\ UNCHANGED <<opening, openRejection, closing, closeTask, opened, closed,
                   closeRejection, configVars, lastAttach, reqVars,
                   concVars, rateVars, instVars, encVars, gateVars>>

\* A failed open that raises the failure and leaves the router where it was.
OpenRejectedStaysOpening ==
    /\ openTask.phase = "threw"
    /\ openTask' = [openTask EXCEPT !.phase = "done"]
    /\ opening' = "rejected"
    /\ openRejection' = openTask.err
    /\ UNCHANGED <<opened, closed, hookLog, closing, closeTask, closeRejection,
                   configVars, lastAttach, reqVars, concVars, rateVars, instVars, encVars, gateVars>>

\* _open() has thrown: the router enters closed with the failure raised,
\* ready() rejects with what _open() threw, and the router was never open.
OpenRejected ==
    /\ openTask.phase = "threw"
    /\ openTask' = [openTask EXCEPT !.phase = "done"]
    /\ opening' = "rejected"
    /\ openRejection' = openTask.err
    /\ closed' = TRUE
    /\ UNCHANGED <<opened, hookLog, closing, closeTask, closeRejection,
                   configVars, lastAttach, reqVars, concVars, rateVars, instVars, encVars, gateVars>>

\* The running onclose of the rollback settles; safetyCatch drops its error.
RollbackFinish(ok) ==
    /\ openTask.phase = "rollback"
    /\ openTask.running
    /\ LET mw == compose_onclose(openTask.chain, openTask.failed).calls[openTask.i]
       IN  /\ openTask' = [openTask EXCEPT
                              !.running = FALSE,
                              !.failed = IF ok THEN @ ELSE @ \cup {mw}]
           /\ hookLog' = Append(hookLog,
                 HookEvent("rollback", "onclose", mw, IF ok THEN "returned" ELSE "threw"))
    /\ UNCHANGED <<opening, closing, opened, closed, closeTask, openRejection,
                   closeRejection, configVars, lastAttach, reqVars, concVars, rateVars, instVars, encVars, gateVars>>

\* _close() runs on to its next await.  Inside a chain compose's onclose
\* calls the onclose of its next (earlier) middleware.  After a chain the
\* loop takes the next registration and calls its onclose, which reads the
\* registration's chain as it is now and calls the onclose of its last
\* middleware at once; a registration the loop has passed is not closed
\* again.  After the last registration the Map is cleared, once, and the
\* onclose of the global chain as it is now is called.
CloseRunsOn(task) ==
    LET calls == compose_onclose(task.chain, task.failed).calls
        n == NextRegistration(task.c)
        chain == IF n # 0 THEN methods[n].mw ELSE globalMw
        first == compose_onclose(chain, {}).calls
    IN  IF task.i < Len(calls)
        THEN /\ closeTask' = [task EXCEPT !.i = @ + 1, !.running = TRUE]
             /\ hookLog' = Append(hookLog,
                   HookEvent("close", "onclose", calls[task.i + 1], "start"))
             /\ UNCHANGED methods
        ELSE /\ closeTask' = [task EXCEPT
                                 !.phase = IF n # 0 THEN "regs" ELSE "global",
                                 !.c = IF n # 0 THEN n ELSE @,
                                 !.chain = chain, !.failed = {},
                                 !.i = IF chain = NOOP THEN 0 ELSE 1,
                                 !.running = chain # NOOP]
             /\ hookLog' = IF chain = NOOP
                           THEN hookLog
                           ELSE Append(hookLog, HookEvent("close", "onclose", first[1], "start"))
             /\ methods' = IF n # 0 THEN methods ELSE <<>>

\* close(): open -> closing.  _close() is called and runs to its first
\* await.
Close ==
    /\ LifecycleState = "open"
    /\ closing' = "pending"
    /\ CloseRunsOn([IdleTask EXCEPT !.phase = "regs"])
    /\ UNCHANGED <<opening, opened, closed, openTask, openRejection, closeRejection,
                   globalMw, nextMw, nrMethodCalls, nrLateConfig,
                   lastAttach, reqVars, concVars, rateVars, instVars, encVars, gateVars>>

\* _close() has ended: closing -> closed; close() raises the aggregate that
\* _close() threw, and nothing when it returned.
CloseSettled(aggregateError) ==
    IF aggregateError.kind = "null"
    THEN [closed |-> TRUE, closing |-> "fulfilled", rejection |-> Null]
    ELSE [closed |-> TRUE, closing |-> "rejected", rejection |-> aggregateError]

\* _close() after an await: it runs on to its next await, and after the
\* onclose of the global chain it throws the aggregate or returns.
CloseStart ==
    /\ closeTask.phase \in {"regs", "global"}
    /\ ~closeTask.running
    /\ IF closeTask.phase = "global"
          /\ closeTask.i >= Len(compose_onclose(closeTask.chain, closeTask.failed).calls)
       THEN /\ closeTask' = [closeTask EXCEPT !.phase = "returned"]
            /\ UNCHANGED <<hookLog, methods>>
       ELSE CloseRunsOn(closeTask)
    /\ UNCHANGED <<closing, closed, closeRejection,
                   globalMw, nextMw, nrMethodCalls, nrLateConfig, opening, opened, openTask,
                   openRejection, lastAttach, reqVars, concVars, rateVars, instVars, encVars, gateVars>>

\* _close() has thrown its aggregate or returned: the close is settled.
CloseReturned ==
    /\ closeTask.phase = "returned"
    /\ LET end == CloseSettled(closeTask.err)
       IN  /\ closeTask' = [closeTask EXCEPT !.phase = "done"]
           /\ closed' = end.closed
           /\ closing' = end.closing
           /\ closeRejection' = end.rejection
    /\ UNCHANGED <<hookLog, opening, opened, openTask, openRejection,
                   configVars, lastAttach, reqVars, concVars, rateVars, instVars, encVars, gateVars>>

\* The running onclose hook settles; with the last hook of a chain the
\* chain's onclose settles, and _close() folds what it threw into its
\* aggregateError.
CloseFinish(ok) ==
    /\ closeTask.phase \in {"regs", "global"}
    /\ closeTask.running
    /\ LET mw == compose_onclose(closeTask.chain, closeTask.failed).calls[closeTask.i]
           failed == IF ok THEN closeTask.failed ELSE closeTask.failed \cup {mw}
           onclose == compose_onclose(closeTask.chain, failed)
           aggregateError == IF closeTask.i = Len(onclose.calls)
                                  /\ onclose.thrown.kind # "null"
                             THEN aggregate(<<closeTask.err, onclose.thrown>>)
                             ELSE closeTask.err
       IN  /\ closeTask' = [closeTask EXCEPT !.running = FALSE, !.failed = failed,
                                             !.err = aggregateError]
           /\ hookLog' = Append(hookLog,
                 HookEvent("close", "onclose", mw, IF ok THEN "returned" ELSE "threw"))
    /\ UNCHANGED <<opening, closing, opened, closed, openTask, openRejection,
                   closeRejection, configVars, lastAttach, reqVars, concVars, rateVars, instVars, encVars, gateVars>>

\* router.handleConnection(connection): the two checks, then one responder
\* per registration, each with the chain composed at this moment.  madeAt
\* notes which middleware objects had been handed to use() by then (those
\* numbered below it).
handleConnectionFirstChain ==
    LET res == IF ~opened THEN "ROUTER_NOT_READY"
               ELSE IF closing # "null" THEN "ROUTER_CLOSED"
               ELSE "attached"
    IN  [res |-> res,
         responders |->
            IF res = "attached"
            THEN [n \in 1..Len(methods) |->
                     [name |-> methods[n].name,
                      chain |-> Middleware_compose(globalMw, methods[1].mw),
                      madeAt |-> nextMw]]
            ELSE <<>>]

handleConnection ==
    LET res == IF ~opened THEN "ROUTER_NOT_READY"
               ELSE IF closing # "null" THEN "ROUTER_CLOSED"
               ELSE "attached"
    IN  [res |-> res,
         responders |->
            IF res = "attached"
            THEN [n \in 1..Len(methods) |->
                     [name |-> methods[n].name,
                      chain |-> Middleware_compose(globalMw, methods[n].mw),
                      madeAt |-> nextMw]]
            ELSE <<>>]

\* A handleConnection call, in whatever state the router is.
HandleConnection ==
    /\ lastAttach' = [state |-> LifecycleState, res |-> handleConnection.res,
                      responders |-> handleConnection.responders]
    /\ UNCHANGED <<configVars, lifeVars, reqVars, concVars, rateVars, instVars, encVars, gateVars>>

\* ------------------------------------------------------------- requests
\* Number of connections that get responders.
MaxConns == 1
\* Number of inbound calls.
MaxReqs == 1
\* Number of inbound calls to a router without middleware.
MaxCalls == 2
\* Number of times a middleware calls next again in one call.
MaxNextAgain == 1

\* The server's 'connection' event: handleConnection on a new connection.
Attach ==
    /\ Len(conns) < MaxConns
    /\ handleConnection.res = "attached"
    /\ conns' = Append(conns, handleConnection.responders)
    /\ UNCHANGED <<reqs, stats, heap, configVars, lifeVars, lastAttach, concVars, rateVars, instVars, encVars>>

Connect == Attach /\ UNCHANGED gateVars

Value == [kind |-> "value"]
TraceEvent(mw, ev) == [mw |-> mw, ev |-> ev]

\* The respond callback's counters: nrRequests++ on entry, the inner catch
\* (around decode, handler and encode) and the outer catch (around the
\* composed onrequest).
countRequest(s) == [s EXCEPT !.nrRequests = @ + 1]
innerCatchCountsTwice(s) == [s EXCEPT !.nrHandlerErrors = @ + 2]
innerCatch(s) == [s EXCEPT !.nrHandlerErrors = @ + 1]
outerCatchSkips(s) == s
outerCatch(s) == [s EXCEPT !.nrErrors = @ + 1]

\* The middleware tried run their own code without suspending: each is
\* `before; await next(); after`, or throws in place of calling next().
\* compose's onrequest is acc.onrequest(ctx, () => middleware.onrequest(ctx,
\* next)): acc runs first and middleware runs when acc calls its next.
\* onrequestDown is what runs on the way in, with the throwAt-th middleware
\* of the chain throwing (0: none throws).
RECURSIVE onrequestDown(_, _)
RECURSIVE onrequestDownRunsOn(_, _)
onrequestDownRunsOn(chain, throwAt) ==
    IF chain = NOOP
    THEN <<>>
    ELSE Append(onrequestDownRunsOn(SubSeq(chain, 1, Len(chain) - 1), throwAt),
                TraceEvent(chain[Len(chain)], "before"))

onrequestDown(chain, throwAt) ==
    IF chain = NOOP
    THEN <<>>
    ELSE LET acc == SubSeq(chain, 1, Len(chain) - 1)
             middleware == chain[Len(chain)]
         IN  IF throwAt \in 1..Len(acc)
             THEN onrequestDown(acc, throwAt)
             ELSE Append(onrequestDown(acc, throwAt), TraceEvent(middleware, "before"))

\* onrequestUp is what runs on the way out through the first `depth`
\* middleware of the chain, which are those awaiting their next(): the
\* middleware sees next() settle before acc does.
RECURSIVE onrequestUp(_, _, _)
onrequestUp(chain, depth, ev) ==
    IF chain = NOOP
    THEN <<>>
    ELSE LET acc == SubSeq(chain, 1, Len(chain) - 1)
             middleware == chain[Len(chain)]
         IN  IF Len(chain) <= depth
             THEN <<TraceEvent(middleware, ev)>> \o onrequestUp(acc, depth, ev)
             ELSE onrequestUp(acc, depth, ev)

\* router.registerMetrics(promClient): three gauges over this.stats are
\* made; no middleware is called.
RegisterMetrics ==
    /\ \A i \in 1..Len(hookLog) : hookLog[i].src # "metrics"
    /\ hookLog' = hookLog \o
          <<HookEvent("metrics", "Gauge", 0, "protomux_rpc_router_nr_requests"),
            HookEvent("metrics", "Gauge", 0, "protomux_rpc_router_nr_errors"),
            HookEvent("metrics", "Gauge", 0, "protomux_rpc_router_nr_handler_errors")>>
    /\ UNCHANGED <<opening, closing, opened, closed, openTask, closeTask, openRejection,
                   closeRejection, configVars, lastAttach, reqVars, concVars, rateVars, instVars, encVars, gateVars>>

\* The ctx of a call: `const ctx = {method, value, connection}` makes a new
\* object in every call of the respond callback.  An object is its place in
\* the heap; marks are the fields the middleware of the model add to the
\* ctx they are called with, each middleware one field holding the value
\* of the call it runs for.
newContextShared(objects) == 1
newContext(objects) == Len(objects) + 1

ContextObject(method, value, connection) ==
    [method |-> method, value |-> value, connection |-> connection, marks |-> <<>>]

HeapWrite(objects, ctx, object) ==
    IF ctx > Len(objects)
    THEN Append(objects, object)
    ELSE [objects EXCEPT ![ctx] = object]

\* The fields the middleware that ran on the way in have added.
Enriched(object, before) ==
    [object EXCEPT !.marks =
        @ \o [i \in 1..Len(before) |-> [mw |-> before[i].mw, value |-> object.value]]]

\* The composed middleware of the n-th responder of connection c: the one
\* the respond callback closed over when handleConnection installed it.
combinedMiddlewareLive(c, n) == Middleware_compose(globalMw, methods[n].mw)
combinedMiddleware(c, n) == conns[c][n].chain

\* The responder of the n-th method of connection c is called: the call is
\* counted, its context is made and the composed onrequest runs in to the
\* middleware that throws, else to the innermost next, which decodes the
\* request and calls the handler; a decode failure is caught by the inner
\* catch.
RespondCallback(limit, c, n, throwAt, decodes) ==
    /\ Len(reqs) < limit
    /\ c \in 1..Len(conns)
    /\ n \in 1..Len(conns[c])
    /\ LET chain == combinedMiddleware(c, n)
           value == Len(reqs) + 1
           ctx == newContext(heap)
           call == [conn |-> c, n |-> n, method |-> conns[c][n].name, chain |-> chain,
                    value |-> value, ctx |-> ctx,
                    seenByHandler |-> <<>>, seenOnReturn |-> <<>>,
                    depth |-> Len(chain), phase |-> "handler", out |-> Null,
                    trace |-> onrequestDown(chain, throwAt)]
       IN  /\ throwAt \in 0..Len(chain)
           /\ heap' = HeapWrite(heap, ctx,
                          Enriched(ContextObject(conns[c][n].name, value, c),
                                   onrequestDown(chain, throwAt)))
           /\ IF throwAt # 0
              THEN /\ reqs' = Append(reqs, [call EXCEPT
                                !.depth = throwAt - 1, !.phase = "settled",
                                !.out = HookError("onrequest", chain[throwAt])])
                   /\ decodes
                   /\ stats' = countRequest(stats)
              ELSE IF ~decodes
              THEN /\ reqs' = Append(reqs, [call EXCEPT
                                !.phase = "settled", !.out = HookError("decode", 0)])
                   /\ stats' = innerCatch(countRequest(stats))
              ELSE /\ reqs' = Append(reqs, [call EXCEPT
                                !.trace = Append(@, TraceEvent(0, "handler"))])
                   /\ stats' = countRequest(stats)
    /\ UNCHANGED <<conns, configVars, lifeVars, lastAttach, concVars, rateVars, instVars, encVars, gateVars>>

\* HandlerSettles reads the ctx for the handler, which was called with it
\* and may read it until it settles; MiddlewareResumes reads it for the
\* middleware that gets the result back from its next().

\* The calls of SpecRequest and SpecRetry come one at a time: a call arrives
\* when the calls before it have ended (SpecCalls and SpecContext have calls
\* in flight together).
Request(c, n, throwAt, decodes) ==
    /\ \A r \in 1..Len(reqs) : reqs[r].phase = "done"
    /\ RespondCallback(MaxReqs, c, n, throwAt, decodes)

\* A call whose middleware all call next.
PassingCall(c, n, decodes) == RespondCallback(MaxReqs, c, n, 0, decodes)

\* A call to a router that was given no middleware.
Call(c, n, decodes) ==
    /\ nextMw = 1
    /\ RespondCallback(MaxCalls, c, n, 0, decodes)

\* The handler settles: its result is encoded and returned, or the handler
\* or the encoding throws, which the inner catch counts.
HandlerSettles(r, outcome) ==
    /\ r \in 1..Len(reqs)
    /\ reqs[r].phase = "handler"
    /\ IF outcome = "value"
       THEN /\ reqs' = [reqs EXCEPT ![r].phase = "settled", ![r].out = Value,
                                    ![r].seenByHandler = heap[reqs[r].ctx].marks]
            /\ UNCHANGED stats
       ELSE /\ reqs' = [reqs EXCEPT ![r].phase = "settled",
                                    ![r].out = HookError(outcome, 0),
                                    ![r].seenByHandler = heap[reqs[r].ctx].marks]
            /\ stats' = innerCatch(stats)
    /\ UNCHANGED <<conns, heap, configVars, lifeVars, lastAttach, concVars, rateVars, instVars, encVars, gateVars>>

\* A middleware awaiting its next() gets what next() settled with, each
\* middleware in a turn of its own: the innermost of those still waiting
\* runs its code after the await, or its catch, reads the ctx and settles
\* the same way, which the one before it gets in a later turn.
MiddlewareResumes(r) ==
    /\ r \in 1..Len(reqs)
    /\ reqs[r].phase = "settled"
    /\ reqs[r].depth > 0
    /\ reqs' = [reqs EXCEPT
          ![r].depth = @ - 1,
          ![r].seenOnReturn = heap[reqs[r].ctx].marks,
          ![r].trace = Append(@, Head(onrequestUp(reqs[r].chain, reqs[r].depth,
                              IF reqs[r].out.kind = "value" THEN "after" ELSE "error")))]
    /\ UNCHANGED <<stats, conns, heap, configVars, lifeVars, lastAttach, concVars, rateVars, instVars, encVars, gateVars>>

\* The composed onrequest has settled, after the last middleware: the
\* responder returns the value to the peer, or its outer catch counts the
\* error and throws it as it caught it.
Respond(r) ==
    /\ r \in 1..Len(reqs)
    /\ reqs[r].phase = "settled"
    /\ reqs[r].depth = 0
    /\ reqs' = [reqs EXCEPT ![r].phase = "done"]
    /\ stats' = IF reqs[r].out.kind = "value"
                THEN stats
                ELSE outerCatch(stats)
    /\ UNCHANGED <<conns, heap, configVars, lifeVars, lastAttach, concVars, rateVars, instVars, encVars, gateVars>>

\* A middleware that awaits next() may call it again after it rejected:
\* next is a closure and compose puts no limit on the calls.  Here the
\* innermost middleware of the chain does, after the handler or the encoding
\* threw: the inner closure runs again, and the handler with it.
NextCalledAgain(call) ==
    Len(SelectSeq(call.trace, LAMBDA e : e.ev = "again"))

NextAgain(r) ==
    /\ r \in 1..Len(reqs)
    /\ reqs[r].phase = "settled"
    /\ reqs[r].out \in {HookError("handler", 0), HookError("encode", 0)}
    /\ reqs[r].chain # NOOP
    /\ reqs[r].depth = Len(reqs[r].chain)
    /\ NextCalledAgain(reqs[r]) < MaxNextAgain
    /\ reqs' = [reqs EXCEPT
          ![r].phase = "handler",
          ![r].out = Null,
          ![r].trace = @ \o <<TraceEvent(reqs[r].chain[Len(reqs[r].chain)], "again"),
                               TraceEvent(0, "handler")>>]
    /\ UNCHANGED <<stats, conns, heap, configVars, lifeVars, lastAttach, concVars, rateVars, instVars, encVars, gateVars>>

\* Calls to a router with global middleware, the innermost of which may
\* call next again.
RetryNext ==
    \/ Use
    \/ \E name \in MethodNames : Method(name)
    \/ Ready
    \/ OpenStart
    \/ OpenReturned
    \/ OpenFinish(TRUE)
    \/ Connect
    \/ \E c \in 1..MaxConns, n \in 1..MaxMethodCalls, throwAt \in 0..MaxMw,
          decodes \in BOOLEAN : Request(c, n, throwAt, decodes)
    \/ \E r \in 1..MaxReqs, outcome \in {"value", "handler", "encode"} :
          HandlerSettles(r, outcome)
    \/ \E r \in 1..MaxReqs : NextAgain(r)
    \/ \E r \in 1..MaxReqs : MiddlewareResumes(r)
    \/ \E r \in 1..MaxReqs : Respond(r)

RequestNext ==
    \/ Use
    \/ \E name \in MethodNames : Method(name)
    \/ \E n \in 1..MaxMethodCalls : RegistrationUse(n)
    \/ Ready
    \/ OpenStart
    \/ OpenReturned
    \/ OpenFinish(TRUE)
    \/ Connect
    \/ \E c \in 1..MaxConns, n \in 1..MaxMethodCalls, throwAt \in 0..MaxMw,
          decodes \in BOOLEAN : Request(c, n, throwAt, decodes)
    \/ \E r \in 1..MaxReqs, outcome \in {"value", "handler", "encode"} :
          HandlerSettles(r, outcome)
    \/ \E r \in 1..MaxReqs : MiddlewareResumes(r)
    \/ \E r \in 1..MaxReqs : Respond(r)

CallsNext ==
    \/ \E name \in MethodNames : Method(name)
    \/ Ready
    \/ OpenStart
    \/ OpenReturned
    \/ Connect
    \/ \E c \in 1..MaxConns, n \in 1..MaxMethodCalls, decodes \in BOOLEAN :
          Call(c, n, decodes)
    \/ \E r \in 1..MaxCalls, outcome \in {"value", "handler", "encode"} :
          HandlerSettles(r, outcome)
    \/ \E r \in 1..MaxCalls : Respond(r)

\* Calls of one connection that are in flight together, to a router with
\* global middleware that all call next.
ConcurrentCall(c, n) ==
    /\ reqs # <<>> => c = reqs[1].conn
    /\ RespondCallback(MaxCalls, c, n, 0, TRUE)

ContextNext ==
    \/ Use
    \/ \E name \in MethodNames : Method(name)
    \/ Ready
    \/ OpenStart
    \/ OpenReturned
    \/ OpenFinish(TRUE)
    \/ Connect
    \/ \E c \in 1..MaxConns, n \in 1..MaxMethodCalls : ConcurrentCall(c, n)
    \/ \E r \in 1..MaxCalls, outcome \in {"value", "handler"} :
          HandlerSettles(r, outcome)
    \/ \E r \in 1..MaxCalls : MiddlewareResumes(r)
    \/ \E r \in 1..MaxCalls : Respond(r)

\* Calls that come one at a time, to a router with global and method
\* middleware that all call next.
SequentialCall(c, n) ==
    /\ \A r \in 1..Len(reqs) : reqs[r].phase = "done"
    /\ RespondCallback(MaxCalls, c, n, 0, TRUE)

IsolationNext ==
    \/ Use
    \/ \E name \in MethodNames : Method(name)
    \/ \E n \in 1..MaxMethodCalls : RegistrationUse(n)
    \/ Ready
    \/ OpenStart
    \/ OpenReturned
    \/ OpenFinish(TRUE)
    \/ Connect
    \/ \E c \in 1..MaxConns, n \in 1..MaxMethodCalls : SequentialCall(c, n)
    \/ \E r \in 1..MaxCalls, outcome \in {"value", "handler"} :
          HandlerSettles(r, outcome)
    \/ \E r \in 1..MaxCalls : MiddlewareResumes(r)
    \/ \E r \in 1..MaxCalls : Respond(r)

\* A router that is configured and asked to register its metrics.
MetricsNext ==
    \/ Use
    \/ \E name \in MethodNames : Method(name)
    \/ \E n \in 1..MaxMethodCalls : RegistrationUse(n)
    \/ RegisterMetrics

\* A router set up without middleware that is given middleware after
\* ready(), before and after connections are attached.
LateCallsNext ==
    \/ \E name \in MethodNames : Method(name)
    \/ Ready
    \/ OpenStart
    \/ OpenReturned
    \/ OpenFinish(TRUE)
    \/ Connect
    \/ LateUse
    \/ \E name \in MethodNames : LateMethod(name)
    \/ \E n \in 1..MaxMethodCalls : LateRegistrationUse(n)
    \/ \E c \in 1..MaxConns, n \in 1..MaxMethodCalls, decodes \in BOOLEAN :
          PassingCall(c, n, decodes)
    \/ \E r \in 1..MaxReqs, outcome \in {"value", "handler", "encode"} :
          HandlerSettles(r, outcome)
    \/ \E r \in 1..MaxReqs : MiddlewareResumes(r)
    \/ \E r \in 1..MaxReqs : Respond(r)

LateNext ==
    \/ LateUse
    \/ \E name \in MethodNames : LateMethod(name)
    \/ \E n \in 1..MaxMethodCalls : LateRegistrationUse(n)

RouterNext ==
    \/ Use
    \/ \E name \in MethodNames : Method(name)
    \/ \E n \in 1..MaxMethodCalls : RegistrationUse(n)
    \/ Ready
    \/ OpenStart
    \/ OpenReturned
    \/ \E ok \in BOOLEAN : OpenFinish(ok)
    \/ RollbackStart
    \/ \E ok \in BOOLEAN : RollbackFinish(ok)
    \/ OpenRejected
    \/ Close
    \/ CloseStart
    \/ CloseReturned
    \/ \E ok \in BOOLEAN : CloseFinish(ok)
    \/ HandleConnection

\* =========================================================== encoding
\* Number of onrequest calls of encoding middleware.
MaxEncCalls == 2

\* A codec of compact-encoding, here one for small numbers on one byte:
\* cenc.decode throws on bytes it cannot read (none are left), cenc.encode
\* on a value that is not of the codec's type.
CodecError(code) == [kind |-> "error", code |-> code, cause |-> Null]
Thrown(result) == result.kind = "error"
Bytes(b) == [kind |-> "bytes", b |-> b]
Number(n) == [kind |-> "number", n |-> n]
Text == [kind |-> "string"]

cenc_decode(bytes) ==
    IF bytes.b = <<>> THEN CodecError("Out of bounds") ELSE Number(bytes.b[1] - 1)
cenc_encode(value) ==
    IF value.kind # "number" THEN CodecError("Invalid value") ELSE Bytes(<<value.n + 1>>)

\* What a peer sends and what next() gives: bytes to decode; a value
\* returned or an error thrown by the inner middleware or the handler.
RequestBytes == {Bytes(<<>>), Bytes(<<1>>), Bytes(<<2>>)}
NextResults == {Number(0), Number(1), Text, CodecError("BOOM_IN_HANDLER")}

\* The encoding middleware's onrequest up to its `await next()`: with a
\* request codec ctx.value is replaced by what cenc.decode gives, and what
\* cenc.decode throws is thrown as it is.
EncOnRequest(request, response, bytes) ==
    /\ Len(encCalls) < MaxEncCalls
    /\ LET call == [request |-> request, response |-> response, bytes |-> bytes,
                    ctxValue |-> bytes, nextCalled |-> FALSE, next |-> Null,
                    phase |-> "done", out |-> Null]
       IN  encCalls' = Append(encCalls,
              IF request /\ Thrown(cenc_decode(bytes))
              THEN [call EXCEPT !.out = cenc_decode(bytes)]
              ELSE [call EXCEPT !.ctxValue = IF request THEN cenc_decode(bytes) ELSE bytes,
                                !.nextCalled = TRUE, !.phase = "awaiting"])
    /\ UNCHANGED <<configVars, lifeVars, lastAttach, reqVars, gateVars, instVars, concVars, rateVars>>

\* next() settles: what it throws is thrown on; what it returns is returned
\* as cenc.encode gives it with a response codec (what cenc.encode throws
\* is thrown as it is), and as it is without one.
EncNextSettles(i, result) ==
    /\ i \in 1..Len(encCalls)
    /\ encCalls[i].phase = "awaiting"
    /\ encCalls' = [encCalls EXCEPT
          ![i].phase = "done",
          ![i].next = result,
          ![i].out = IF Thrown(result) THEN result
                     ELSE IF encCalls[i].response THEN cenc_encode(result)
                     ELSE result]
    /\ UNCHANGED <<configVars, lifeVars, lastAttach, reqVars, gateVars, instVars, concVars, rateVars>>

EncodingNext ==
    \/ \E request \in BOOLEAN, response \in BOOLEAN, bytes \in RequestBytes :
          EncOnRequest(request, response, bytes)
    \/ \E i \in 1..MaxEncCalls, result \in NextResults : EncNextSettles(i, result)

\* ======================================================== capability gate
\* The router's constructor options: none, or a namespace and a capability.
Namespaces == {"ns1", "ns2"}
Capabilities == {"K1", "K2"}
CapabilityOptions == {NoCapability, [namespace |-> "ns1", capability |-> "K1"]}

\* A connection other than the ones attached to this router.
Elsewhere == 0

\* hyperswarm-capability: the proof a helper made for a namespace generates
\* for a connection and a capability, 32 bytes of MAC that stand here for
\* what they were computed from, and its verification.
HyperswarmCapability_generate(namespace, connection, cap) ==
    [namespace |-> namespace, connection |-> connection, capability |-> cap]
HyperswarmCapability_verify(namespace, connection, cap, proof) ==
    proof = HyperswarmCapability_generate(namespace, connection, cap)

\* lib/handshake.js: a flags byte, then the 32 bytes of the proof when bit 0
\* of the flags is set.
Handshake_encode(m) == IF m.capability # Null THEN <<1, m.capability>> ELSE <<0>>
Handshake_decode(wire) ==
    [capability |-> IF wire[1] % 2 = 1 THEN wire[2] ELSE Null]

\* What a peer's open carries when its side installed no handshake.
NoHandshake == <<>>

\* What a peer can send on open: nothing, a handshake without a proof, or a
\* proof generated for some namespace, connection and capability.
PeerHandshakes(c) ==
    {NoHandshake, Handshake_encode([capability |-> Null])}
    \cup {Handshake_encode([capability |->
                HyperswarmCapability_generate(namespace, connection, cap)]) :
             namespace \in Namespaces, connection \in {c, Elsewhere},
             cap \in Capabilities}

\* The check of a peer's handshake by a router that has a capability: the
\* proof must be there and must verify for this connection.
verifyHandshakeMissingOk(connection, wire) ==
    LET handshake == IF wire = NoHandshake THEN [capability |-> Null]
                     ELSE Handshake_decode(wire)
    IN  \/ handshake.capability = Null
        \/ HyperswarmCapability_verify(capability.namespace, connection,
                                       capability.capability, handshake.capability)

verifyHandshake(connection, wire) ==
    LET handshake == IF wire = NoHandshake THEN [capability |-> Null]
                     ELSE Handshake_decode(wire)
    IN  /\ handshake.capability # Null
        /\ HyperswarmCapability_verify(capability.namespace, connection,
                                       capability.capability, handshake.capability)

\* handleConnection on a new connection, with the transport session it
\* makes: a router that has a capability installs the handshake encoding
\* and sends its own proof for the connection on open.
GateHandleConnection ==
    /\ Attach
    /\ sessions' = Append(sessions,
          [state |-> "attached",
           sent |-> IF capability = NoCapability
                    THEN NoHandshake
                    ELSE Handshake_encode([capability |->
                            HyperswarmCapability_generate(capability.namespace,
                               Len(conns) + 1, capability.capability)]),
           received |-> NoHandshake,
           verified |-> 0,
           error |-> Null])
    /\ UNCHANGED <<capability, capabilityErrors>>

\* A gate that checks the peer's handshake also when the router was given
\* no capability.
SessionOpensChecksAlways(c, wire) ==
    /\ c \in 1..Len(sessions)
    /\ sessions[c].state = "attached"
    /\ IF verifyHandshake(c, wire)
       THEN /\ sessions' = [sessions EXCEPT ![c].state = "open", ![c].received = wire,
                                            ![c].verified = @ + 1]
            /\ UNCHANGED capabilityErrors
       ELSE /\ sessions' = [sessions EXCEPT ![c].state = "destroyed",
                                            ![c].received = wire,
                                            ![c].verified = @ + 1,
                                            ![c].error = "CAPABILITY_INVALID"]
            /\ capabilityErrors' = Append(capabilityErrors, c)
    /\ UNCHANGED <<capability, configVars, lifeVars, lastAttach, reqVars, concVars, rateVars, instVars, encVars>>

\* The session of connection c opens with the peer's handshake.  Without a
\* capability nothing is checked; with one, the handshake is verified and
\* on failure 'capability-error' is emitted with the connection and the
\* session is destroyed with CAPABILITY_INVALID.
SessionOpens(c, wire) ==
    /\ c \in 1..Len(sessions)
    /\ sessions[c].state = "attached"
    /\ IF capability = NoCapability
       THEN /\ sessions' = [sessions EXCEPT ![c].state = "open", ![c].received = wire]
            /\ UNCHANGED capabilityErrors
       ELSE IF verifyHandshake(c, wire)
       THEN /\ sessions' = [sessions EXCEPT ![c].state = "open", ![c].received = wire,
                                            ![c].verified = @ + 1]
            /\ UNCHANGED capabilityErrors
       ELSE /\ sessions' = [sessions EXCEPT ![c].state = "destroyed",
                                            ![c].received = wire,
                                            ![c].verified = @ + 1,
                                            ![c].error = "CAPABILITY_INVALID"]
            /\ capabilityErrors' = Append(capabilityErrors, c)
    /\ UNCHANGED <<capability, configVars, lifeVars, lastAttach, reqVars, concVars, rateVars, instVars, encVars>>

\* The transport delivers a call of the peer on an open session.
GateRequest(c, n, decodes) ==
    /\ c \in 1..Len(sessions)
    /\ sessions[c].state = "open"
    /\ PassingCall(c, n, decodes)

GateNext ==
    \/ \E name \in MethodNames : Method(name)
    \/ Ready
    \/ OpenStart
    \/ OpenReturned
    \/ GateHandleConnection
    \/ \E c \in 1..MaxConns : \E wire \in PeerHandshakes(c) : SessionOpens(c, wire)
    \/ \E c \in 1..MaxConns, n \in 1..MaxMethodCalls, decodes \in BOOLEAN :
          GateRequest(c, n, decodes)
    \/ \E r \in 1..MaxReqs, outcome \in {"value", "handler", "encode"} :
          HandlerSettles(r, outcome)
    \/ \E r \in 1..MaxReqs : Respond(r)

\* ======================================================== specifications
\* Each specification exercises one object; the others stay as constructed.
InitConc == ConcInit /\ RateIdle /\ RouterInit /\ NoLimiters
InitRate == RateInit /\ ConcIdle /\ RouterInit /\ NoLimiters
InitRouter == RouterInit /\ ConcIdle /\ RateIdle /\ NoLimiters
InitLimiters == ConcInit /\ RateInit /\ RouterInit /\ NoLimiters
InitGate ==
    \E options \in CapabilityOptions :
        RouterConstructor(options) /\ ConcIdle /\ RateIdle /\ NoLimiters
InitInstances == LimitersInit /\ ConcIdle /\ RateIdle /\ RouterInit

SpecConc == InitConc /\ [][ConcNext]_vars
SpecRate == InitRate /\ [][RateNext]_vars
SpecRateSettle == InitRate /\ [][RateSettleNext]_vars
SpecLimiters == InitLimiters /\ [][LimitersNext]_vars
SpecInstances == InitInstances /\ [][InstancesNext]_vars
SpecRouter == InitRouter /\ [][RouterNext]_vars
SpecRequest == InitRouter /\ [][RequestNext]_vars
SpecCalls == InitRouter /\ [][CallsNext]_vars
SpecLateCalls == InitRouter /\ [][LateCallsNext]_vars
SpecRetry == InitRouter /\ [][RetryNext]_vars
SpecContext == InitRouter /\ [][ContextNext]_vars
SpecIsolation == InitRouter /\ [][IsolationNext]_vars
SpecMetrics == InitRouter /\ [][MetricsNext]_vars
SpecEncoding == InitRouter /\ [][EncodingNext]_vars
SpecGate == InitGate /\ [][GateNext]_vars
SpecRouterLate == InitRouter /\ [][RouterNext \/ LateNext]_vars

\* ================================================================ claims
\* ---------------------------------------------------- concurrency limiter
Active(map, key) == IF key \in DOMAIN map THEN map[key] ELSE 0

\* C2: at every instant at most `capacity` admitted requests of a key are in
\* flight, and a request that arrives at a live limiter while its key has
\* `capacity` requests in flight fails with CONCURRENT_LIMIT_EXCEEDED.
C2_ConcurrencyCapacity ==
    /\ \A key \in Keys : Cardinality(InFlight(concReq, key)) <= concCapacity
    /\ \A i \in 1..Len(concReq) :
          (concReq[i].pre >= concCapacity
             /\ concReq[i].st # "CONCURRENT_LIMIT_MIDDLEWARE_DESTROYED")
          => concReq[i].st = "CONCURRENT_LIMIT_EXCEEDED"

\* Four requests of one key at capacity 2: two in flight, two rejected.
C2_Witness ==
    /\ concCapacity = 2
    /\ Len(concReq) >= 4
    /\ \A i \in 1..4 : concReq[i].key = "k1"
    /\ concReq[1].st = "inflight" /\ concReq[2].st = "inflight"
    /\ concReq[3].st = "CONCURRENT_LIMIT_EXCEEDED"
    /\ concReq[4].st = "CONCURRENT_LIMIT_EXCEEDED"

\* The requests of `key` whose next() settles in this step.
SettlingNow(key) ==
    {i \in 1..Len(concReq) :
        /\ concReq[i].key = key
        /\ concReq[i].st = "inflight"
        /\ concReq'[i].st \in {"fulfilled", "rejected"}}

\* C3: on a live limiter, the step in which next() of an admitted request
\* settles (fulfilled or rejected) lowers the active count of its key by
\* exactly 1, no other step lowers it, and a key that was at capacity admits
\* a request right after that step.
C3_ReleaseOnSettle ==
    [][\A key \in Keys :
          /\ (SettlingNow(key) # {} /\ ~concDestroyed)
                => /\ Active(activeMap', key) = Active(activeMap, key) - 1
                   /\ Conc_tryAcquire(activeMap', concCapacity, key).ok
          /\ (SettlingNow(key) = {} /\ ~concDestroyed')
                => Active(activeMap', key) >= Active(activeMap, key)]_vars

\* A key at capacity rejected a request, one of its requests failed, and the
\* next request of the key was admitted.
C3_Witness ==
    /\ ~concDestroyed
    /\ \E i, j, l \in 1..Len(concReq) :
          /\ i < j /\ j < l
          /\ concReq[i].key = concReq[j].key /\ concReq[j].key = concReq[l].key
          /\ concReq[i].st = "rejected"
          /\ concReq[j].st = "CONCURRENT_LIMIT_EXCEEDED"
          /\ concReq[l].st = "inflight"
          /\ concReq[l].pre = concCapacity - 1

\* ----------------------------------------------------------- rate limiter
IsRequest(i, key) == rateLog[i].ev = "req" /\ rateLog[i].key = key
RequestsIn(a, b, key) == {m \in a..b : IsRequest(m, key)}
TicksIn(a, b) == {m \in a..b : rateLog[m].ev = "tick"}
DestroyedBy(j) == \E d \in 1..j : rateLog[d].ev = "destroy"
Min(a, b) == IF a <= b THEN a ELSE b

\* C4: from a request that finds its key absent from the token map, with no
\* tick after it, the n-th request of the key is admitted when n <= capacity
\* and fails with RATE_LIMIT_EXCEEDED when n > capacity (live limiter).
C4_RateCapacity ==
    \A i \in 1..Len(rateLog) : \A j \in i..Len(rateLog) :
        (/\ rateLog[i].ev = "req"
         /\ ~rateLog[i].resident
         /\ IsRequest(j, rateLog[i].key)
         /\ TicksIn(i, j) = {}
         /\ ~DestroyedBy(j))
        => IF Cardinality(RequestsIn(i, j, rateLog[i].key)) <= rateCapacity
           THEN rateLog[j].res = "next"
           ELSE rateLog[j].res = "RATE_LIMIT_EXCEEDED"

\* Capacity 1: the first request is admitted, the second and third fail.
C4_Witness ==
    /\ rateCapacity = 1
    /\ Len(rateLog) >= 3
    /\ \A i \in 1..3 : IsRequest(i, "k1")
    /\ rateLog[1].res = "next"
    /\ rateLog[2].res = "RATE_LIMIT_EXCEEDED"
    /\ rateLog[3].res = "RATE_LIMIT_EXCEEDED"

\* The request at i left its key with no token.
LeavesNoToken(i) ==
    /\ rateLog[i].ev = "req"
    /\ \/ rateLog[i].res = "RATE_LIMIT_EXCEEDED"
       \/ /\ rateLog[i].res = "next"
          /\ IF rateLog[i].resident THEN rateLog[i].tokens = 1 ELSE rateCapacity = 1

\* C5: after a request left its key with no token, then t ticks with no
\* request of the key among them, then requests of the key with no tick among
\* them: the n-th of these is admitted exactly when n <= min(t, capacity), so
\* at most min(t, capacity) are admitted before one is rejected.
C5_RefillAllowance ==
    \A i \in 1..Len(rateLog) : \A m \in (i + 1)..Len(rateLog) :
        (/\ LeavesNoToken(i)
         /\ IsRequest(m, rateLog[i].key)
         /\ ~DestroyedBy(m)
         /\ \A a \in TicksIn(i + 1, m) :
               \A b \in RequestsIn(i + 1, m, rateLog[i].key) : a < b)
        => (rateLog[m].res = "next"
              <=> Cardinality(RequestsIn(i + 1, m, rateLog[i].key))
                     <= Min(Cardinality(TicksIn(i + 1, m)), rateCapacity))

\* Capacity 2, bucket emptied, one tick: one more request is admitted and the
\* one after it is rejected.
C5_Witness ==
    /\ rateCapacity = 2
    /\ Len(rateLog) >= 6
    /\ \A i \in {1, 2, 3, 5, 6} : IsRequest(i, "k1")
    /\ rateLog[3].res = "RATE_LIMIT_EXCEEDED"
    /\ rateLog[4].ev = "tick"
    /\ rateLog[5].res = "next"
    /\ rateLog[6].res = "RATE_LIMIT_EXCEEDED"

\* ------------------------------------------------------ request pipeline
Range(seq) == {seq[i] : i \in DOMAIN seq}
Reverse(seq) == [i \in 1..Len(seq) |-> seq[Len(seq) + 1 - i]]

\* The middleware objects of a set in the order of the use() calls that
\* took them: the objects are numbered as they are handed to use().
RECURSIVE InUseOrder(_)
InUseOrder(set) ==
    IF set = {}
    THEN <<>>
    ELSE LET first == CHOOSE mw \in set : \A other \in set : mw <= other
         IN  <<first>> \o InUseOrder(set \ {first})

TraceOf(mws, ev) == [i \in 1..Len(mws) |-> TraceEvent(mws[i], ev)]

\* C1: a request whose middleware all call next and whose handler's result
\* is returned has the trace g1.before .. gk.before, m1.before .. mj.before,
\* handler, mj.after .. m1.after, gk.after .. g1.after (global and method
\* middleware each in use() order), and the peer gets the handler's value;
\* while the result is on its way out the trace is that one up to the
\* middleware that has it.
C1_RequestOrder ==
    \A r \in 1..Len(reqs) :
        (reqs[r].phase \in {"settled", "done"} /\ reqs[r].out.kind = "value")
        => LET inOrder == InUseOrder(Range(globalMw))
                             \o InUseOrder(Range(methods[reqs[r].n].mw))
               resumed == SubSeq(inOrder, reqs[r].depth + 1, Len(inOrder))
           IN  /\ reqs[r].trace = TraceOf(inOrder, "before")
                                     \o <<TraceEvent(0, "handler")>>
                                     \o TraceOf(Reverse(resumed), "after")
               /\ reqs[r].phase = "done" => resumed = inOrder
               /\ reqs[r].out = Value

\* Two global and two method middleware around a handler that returned.
C1_Witness ==
    \E r \in 1..Len(reqs) :
        /\ reqs[r].phase = "done"
        /\ reqs[r].out = Value
        /\ Len(globalMw) = 2
        /\ Len(methods[reqs[r].n].mw) = 2
        /\ Len(reqs[r].trace) = 9

\* ----------------------------------------------------- router lifecycle
\* The middleware whose hook `hook` was called by `src`, in call order.
Called(src, hook) ==
    LET starts == SelectSeq(hookLog,
                     LAMBDA e : e.src \in src /\ e.hook = hook /\ e.ev = "start")
    IN  [i \in 1..Len(starts) |-> starts[i].mw]

TimesIn(seq, x) == Cardinality({i \in 1..Len(seq) : seq[i] = x})

\* C6 (as stated): when open() has raised, onopen was called on no
\* participant after the one that failed, onclose was called exactly once on
\* each participant opened before it and on no other participant, and the
\* error raised is the failure of that participant.
C6_PartialOpenRollback ==
    opening = "rejected"
    => LET opens == Called({"open"}, "onopen")
           closes == Called({"open", "rollback", "close"}, "onclose")
           k == Len(opens)
       IN  /\ openRejection = HookError("onopen", opens[k])
           /\ \A i \in 1..(k - 1) : TimesIn(closes, opens[i]) = 1
           /\ \A mw \in 1..(nextMw - 1) :
                 mw \notin {opens[i] : i \in 1..(k - 1)} => TimesIn(closes, mw) = 0

\* C7 (as stated): after a successful open, a finished close() has called
\* every participant's onclose exactly once, in the reverse of the order of
\* the onopen calls.
C7_OpenCloseSymmetry ==
    (opened /\ closeTask.phase = "done")
    => Called({"close"}, "onclose") = Reverse(Called({"open"}, "onopen"))

\* C8: the _close() of close() calls the onclose of every middleware of
\* every registration before the registrations are dropped, and of every
\* global middleware before it ends, whichever of the hooks threw.
C8_CloseRunsEveryHook ==
    [][/\ (methods # <<>> /\ methods' = <<>>)
          => \A n \in 1..Len(methods) : \A mw \in Range(methods[n].mw) :
                TimesIn(Called({"close"}, "onclose"), mw) = 1
       /\ (closeTask.phase # "done" /\ closeTask'.phase = "done")
          => \A mw \in Range(globalMw) :
                TimesIn(Called({"close"}, "onclose"), mw) = 1]_vars

CloseThrows ==
    SelectSeq(hookLog, LAMBDA e : e.src = "close" /\ e.ev = "threw")

\* A finished close in which a method hook and a global hook threw and
\* hooks were called after each of them.
C8_Witness ==
    /\ closeTask.phase = "done"
    /\ Len(CloseThrows) >= 2
    /\ Len(Called({"close"}, "onclose")) = 4
    /\ Len(globalMw) = 2
    /\ CloseThrows[1].mw \notin Range(globalMw)
    /\ CloseThrows[2].mw = globalMw[2]

\* C9: when _close() has ended, close() rejects with one aggregate whose
\* errors are the errors the onclose hooks threw, each once, in the order
\* they were thrown; when no hook threw, close() raises nothing.
C9_CloseAggregate ==
    closeTask.phase = "done"
    => IF CloseThrows = <<>>
       THEN closeRejection = Null /\ closing = "fulfilled"
       ELSE /\ closing = "rejected"
            /\ closeRejection =
                 AggregateError([i \in 1..Len(CloseThrows) |->
                                    HookError("onclose", CloseThrows[i].mw)])

\* Global chain [m1, m2, m3, m4] with m2 and m4 failing: [m4's, m2's].
C9_Witness ==
    /\ closeTask.phase = "done"
    /\ globalMw = <<1, 2, 3, 4>>
    /\ closeRejection = AggregateError(<<HookError("onclose", 4), HookError("onclose", 2)>>)

\* C10 (as stated): handleConnection installs responders only in state open,
\* fails with ROUTER_NOT_READY in state new or opening and with
\* ROUTER_CLOSED in state closing or closed, and installs nothing when it
\* fails.
C10_AttachByState ==
    lastAttach.res # "none"
    => /\ lastAttach.state = "open" <=> lastAttach.res = "attached"
       /\ lastAttach.state \in {"new", "opening"} => lastAttach.res = "ROUTER_NOT_READY"
       /\ lastAttach.state \in {"closing", "closed"} => lastAttach.res = "ROUTER_CLOSED"
       /\ lastAttach.res # "attached" => lastAttach.responders = <<>>

\* ------------------------------------------------------------ counters
\* The calls that ended with an error thrown to the transport.
Surfaced == {r \in 1..Len(reqs) : reqs[r].phase = "done" /\ reqs[r].out.kind = "error"}

\* C11 (as stated): nrHandlerErrors counts exactly the calls whose failure
\* came from the user handler; a middleware, decoding or encoding failure
\* leaves it unchanged.
C11_HandlerErrorAccounting ==
    stats.nrHandlerErrors =
        Cardinality({r \in 1..Len(reqs) : reqs[r].out = HookError("handler", 0)})

\* C12: nrRequests is the number of inbound calls, whatever became of them,
\* and nrErrors is the number of calls that ended with an error thrown to
\* the transport; a call that returned a response adds nothing to it.
C12_RequestErrorAccounting ==
    /\ stats.nrRequests = Len(reqs)
    /\ stats.nrErrors = Cardinality(Surfaced)

\* A call rejected by a middleware (as a limiter does) was counted once as a
\* request and once as an error.
C12_Witness ==
    \E r \in Surfaced :
        /\ reqs[r].out.hook = "onrequest"
        /\ stats.nrRequests = Len(reqs)
        /\ stats.nrErrors >= 1

\* The place of x in a sequence without repetitions.
IndexIn(seq, x) == CHOOSE i \in 1..Len(seq) : seq[i] = x

\* C15: when a middleware throws in place of calling next, only it and the
\* middleware outside it have been invoked (no middleware inside it, not the
\* handler), each outer one sees the failure as its next() rejects, innermost
\* first, and the error thrown to the transport is that middleware's error.
C15_MiddlewareErrorBubbles ==
    \A r \in 1..Len(reqs) :
        (reqs[r].phase \in {"settled", "done"} /\ reqs[r].out.kind = "error"
            /\ reqs[r].out.hook = "onrequest")
        => LET inOrder == InUseOrder(Range(globalMw))
                             \o InUseOrder(Range(methods[reqs[r].n].mw))
               outer == SubSeq(inOrder, 1, IndexIn(inOrder, reqs[r].out.mw) - 1)
               resumed == SubSeq(outer, reqs[r].depth + 1, Len(outer))
           IN  /\ reqs[r].out.mw \in Range(inOrder)
               /\ reqs[r].trace = TraceOf(Append(outer, reqs[r].out.mw), "before")
                                     \o TraceOf(Reverse(resumed), "error")
               /\ reqs[r].phase = "done" => resumed = outer

\* The first method middleware of a chain of two global and two method
\* middleware threw: the two global ones ran before it and saw the error.
C15_Witness ==
    \E r \in 1..Len(reqs) :
        /\ reqs[r].phase = "done"
        /\ reqs[r].out = HookError("onrequest", 3)
        /\ globalMw = <<1, 2>>
        /\ methods[reqs[r].n].mw = <<3, 4>>
        /\ Len(reqs[r].trace) = 5

\* ------------------------------------------------------ request identity
\* C13 (as stated): every call has a requestId of its own, which is the
\* field requestId of the ctx that the middleware and the handler of the
\* call are given, and the error thrown to the transport for a call carries
\* that call's requestId as its field context.
C13_RequestIdCorrelation ==
    /\ \A r \in 1..Len(reqs) : "requestId" \in DOMAIN heap[reqs[r].ctx]
    /\ \A r1, r2 \in 1..Len(reqs) :
          r1 # r2 => heap[reqs[r1].ctx].requestId # heap[reqs[r2].ctx].requestId
    /\ \A r \in Surfaced :
          /\ "context" \in DOMAIN reqs[r].out
          /\ reqs[r].out.context = heap[reqs[r].ctx].requestId

\* ------------------------------------------------------ key independence
\* What a limiter of `class` answers to the requests of a history, from its
\* construction on.
RECURSIVE LimiterAnswers(_, _, _, _, _)
LimiterAnswers(class, log, map, capacity, destroyed) ==
    IF log = <<>>
    THEN <<>>
    ELSE LET e == Head(log)
             got == Limiter_tryAcquire(class, map, capacity, e.key)
         IN  IF e.ev = "tick"
             THEN LimiterAnswers(class, Tail(log), Rate_refill(map, capacity),
                                 capacity, destroyed)
             ELSE IF e.ev = "settle"
             THEN LimiterAnswers(class, Tail(log), Conc_release(map, e.key),
                                 capacity, destroyed)
             ELSE IF e.ev = "destroy"
             THEN LimiterAnswers(class, Tail(log), EmptyMap, capacity, TRUE)
             ELSE IF destroyed \/ ~got.ok
             THEN <<Limiter_refusal(class, destroyed)>>
                     \o LimiterAnswers(class, Tail(log), map, capacity, destroyed)
             ELSE <<"next">>
                     \o LimiterAnswers(class, Tail(log), got.map, capacity, destroyed)

\* The history of limiter i without the requests and completions of the
\* other keys, and what the limiter answered to the requests of `key`.
HistoryOf(i, key) ==
    SelectSeq(limiters[i].log, LAMBDA e : e.ev \in {"tick", "destroy"} \/ e.key = key)
AnswersTo(i, key) ==
    LET own == SelectSeq(limiters[i].log, LAMBDA e : e.ev = "req" /\ e.key = key)
    IN  [n \in 1..Len(own) |-> own[n].res]

\* C14: what a limiter answers to the requests of a key is decided by that
\* key's own history at that limiter: with two limiters of either class at
\* work side by side, the answers of each limiter to each key are those of
\* a limiter of its class and capacity that was asked nothing but this
\* key's requests and saw only its own ticks, this key's completions and
\* its own destroy; neither the other keys nor the other limiter change
\* any of them.
C14_KeyIndependence ==
    \A i \in DOMAIN limiters : \A key \in Keys :
        AnswersTo(i, key) =
            LimiterAnswers(limiters[i].class, HistoryOf(i, key), EmptyMap,
                           limiters[i].capacity, FALSE)

\* Two limiters of one class and capacity 1: at the first k2 is admitted
\* and then refused while k1, asking in between, is admitted; the second
\* admits k1 as well.
C14_Witness ==
    /\ limiters[1].class = limiters[2].class
    /\ limiters[1].capacity = 1 /\ limiters[2].capacity = 1
    /\ Len(limiters[1].log) = 3
    /\ limiters[1].log[1] = LimiterEvent("req", "k2", "next")
    /\ limiters[1].log[2] = LimiterEvent("req", "k1", "next")
    /\ limiters[1].log[3].key = "k2" /\ limiters[1].log[3].res \notin {"next", "-"}
    /\ limiters[2].log = <<LimiterEvent("req", "k1", "next")>>

\* --------------------------------------------------- composition caching
Invoked(r) == {reqs[r].trace[i].mw : i \in 1..Len(reqs[r].trace)} \ {0}

\* C18: a call on a connection invokes no middleware that was handed to
\* router.use() or registration.use() after the connection was attached,
\* and a call that reaches the handler has invoked every global middleware
\* and every middleware of its registration handed over before the attach.
C18_CompositionCaching ==
    \A r \in 1..Len(reqs) :
        LET madeAt == conns[reqs[r].conn][reqs[r].n].madeAt
        IN  /\ \A mw \in Invoked(r) : mw < madeAt
            /\ reqs[r].out.kind = "value"
               => \A mw \in Range(globalMw) \cup Range(methods[reqs[r].n].mw) :
                     mw < madeAt => mw \in Invoked(r)

\* A call that returned a value on a connection attached before the use()
\* of the router's only middleware: the middleware was not invoked.
C18_Witness ==
    \E r \in 1..Len(reqs) :
        /\ reqs[r].phase = "done"
        /\ reqs[r].out = Value
        /\ globalMw = <<1>>
        /\ conns[reqs[r].conn][reqs[r].n].madeAt = 1
        /\ Invoked(r) = {}

\* ------------------------------------------------------------ open order
\* What open() logged, in order.
OpenEvents == SelectSeq(hookLog, LAMBDA e : e.src = "open")

\* The middleware of the registrations from the n-th on, registration by
\* registration, each registration's in use() order.
RECURSIVE RegistrationsInOrder(_)
RegistrationsInOrder(n) ==
    IF n > Len(methods)
    THEN <<>>
    ELSE InUseOrder(Range(methods[n].mw)) \o RegistrationsInOrder(n + 1)

\* C19: as long as close() has not dropped the registrations, the onopen
\* hooks that open() has started are the first ones of: the global
\* middleware in use() order, then registration by registration its
\* middleware in use() order; each was started only after the one before
\* it had returned; and when the router is open all of them have run.
C19_OpenOrder ==
    closeTask.phase \in {"idle", "regs"}
    => LET opens == Called({"open"}, "onopen")
           inOrder == InUseOrder(Range(globalMw)) \o RegistrationsInOrder(1)
       IN  /\ Len(opens) <= Len(inOrder)
           /\ opens = SubSeq(inOrder, 1, Len(opens))
           /\ \A i \in 1..Len(OpenEvents) :
                 IF i % 2 = 1
                 THEN OpenEvents[i] =
                         HookEvent("open", "onopen", opens[(i + 1) \div 2], "start")
                 ELSE /\ OpenEvents[i].mw = opens[i \div 2]
                      /\ OpenEvents[i].ev \in {"returned", "threw"}
                      /\ OpenEvents[i].ev = "threw" => i = Len(OpenEvents)
           /\ opened => opens = inOrder

\* An open router with two global middleware and two registrations with one
\* middleware each: four onopen hooks, eight events.
C19_Witness ==
    /\ opened
    /\ closing = "null"
    /\ Len(globalMw) = 2
    /\ Len(methods) = 2
    /\ \A n \in 1..2 : Len(methods[n].mw) = 1
    /\ Len(OpenEvents) = 8

\* --------------------------------------------------- registration window
Registered == {methods[n].name : n \in 1..Len(methods)}

\* C20 (as stated): once open() has been called (the router is no longer in
\* state new) no step adds a registration: neither the registered names
\* nor the number of registrations grow.
C20_MethodsOnlyInNew ==
    [][LifecycleState # "new"
       => /\ Registered' \subseteq Registered
          /\ Len(methods') <= Len(methods)]_vars

\* -------------------------------------------------------- capability gate
\* The peer of connection c sent a proof made for the router's namespace
\* and capability and for this connection.
PeerProves(c) ==
    sessions[c].received =
        <<1, HyperswarmCapability_generate(capability.namespace, c,
                                           capability.capability)>>

\* C16: on a router that has a capability, a session that opened with a
\* handshake without a proof, or with a proof for another capability,
\* namespace or connection, is destroyed with CAPABILITY_INVALID, was
\* verified once, has exactly one capability-error event for its connection
\* and no call of its connection was handed to a responder.
C16_CapabilityRejects ==
    \A c \in 1..Len(sessions) :
        (capability # NoCapability /\ sessions[c].state # "attached" /\ ~PeerProves(c))
        => /\ sessions[c].state = "destroyed"
           /\ sessions[c].error = "CAPABILITY_INVALID"
           /\ sessions[c].verified = 1
           /\ TimesIn(capabilityErrors, c) = 1
           /\ \A r \in 1..Len(reqs) : reqs[r].conn # c

\* A session destroyed because the proof was made for another namespace.
C16_Witness ==
    \E c \in 1..Len(sessions) :
        /\ capability # NoCapability
        /\ sessions[c].state = "destroyed"
        /\ Len(sessions[c].received) = 2
        /\ sessions[c].received[2].namespace # capability.namespace
        /\ sessions[c].received[2].capability = capability.capability
        /\ sessions[c].received[2].connection = c
        /\ capabilityErrors = <<c>>

\* C17: a session that opened on a router without a capability, whatever
\* the peer sent, or with a proof that verifies for its connection, is open
\* and has no capability-error event, and every call delivered on it that
\* decoded was handed to the handler.
C17_CapabilityAccepts ==
    \A c \in 1..Len(sessions) :
        (sessions[c].state # "attached" /\ (capability = NoCapability \/ PeerProves(c)))
        => /\ sessions[c].state = "open"
           /\ TimesIn(capabilityErrors, c) = 0
           /\ \A r \in 1..Len(reqs) :
                 (reqs[r].conn = c /\ reqs[r].out # HookError("decode", 0))
                 => TraceEvent(0, "handler") \in Range(reqs[r].trace)

\* A router with a capability answered a call of a peer whose proof
\* verified.
C17_Witness ==
    \E c \in 1..Len(sessions) : \E r \in 1..Len(reqs) :
        /\ capability # NoCapability
        /\ PeerProves(c)
        /\ sessions[c].state = "open"
        /\ sessions[c].verified = 1
        /\ reqs[r].conn = c
        /\ reqs[r].phase = "done"
        /\ reqs[r].out = Value
        /\ capabilityErrors = <<>>

\* ------------------------------------------------------------ failed open
OpenThrows == SelectSeq(hookLog, LAMBDA e : e.src = "open" /\ e.ev = "threw")

\* C21: at most one onopen hook throws, and the router is never open once
\* one has; when open() has rejected, its error is the error of that hook,
\* the router is in state closed, and a handleConnection call fails, as
\* every call made since has.
C21_FailedOpen ==
    /\ Len(OpenThrows) <= 1
    /\ OpenThrows # <<>> => ~opened /\ LifecycleState # "open"
    /\ opening = "rejected"
       => /\ Len(OpenThrows) = 1
          /\ openRejection = HookError("onopen", OpenThrows[1].mw)
          /\ LifecycleState = "closed"
          /\ handleConnection.res \notin {"attached", "none"}
          /\ handleConnection.responders = <<>>
    /\ lastAttach.state = "closed" => lastAttach.res \notin {"attached", "none"}
    /\ (OpenThrows # <<>> /\ openTask.phase = "done") => opening = "rejected"

\* The third global middleware failed to open, an onclose of the rollback
\* threw as well, open() rejected, the router is closed and a
\* handleConnection call made after that failed.
C21_Witness ==
    /\ opening = "rejected"
    /\ Len(Called({"open"}, "onopen")) = 3
    /\ \E i \in 1..Len(hookLog) : hookLog[i].src = "rollback" /\ hookLog[i].ev = "threw"
    /\ closed
    /\ lastAttach.state = "closed"
    /\ lastAttach.res \notin {"attached", "none"}

\* ------------------------------------------------------ per-call context
\* The fields the middleware that ran for call r have added to its ctx.
MarksOf(r) ==
    LET before == SelectSeq(reqs[r].trace, LAMBDA e : e.ev = "before")
    IN  [i \in 1..Len(before) |-> [mw |-> before[i].mw, value |-> reqs[r].value]]

\* C22: no two calls have the same ctx object; the ctx of a call holds, at
\* any time, the fields added by the middleware that ran for that call and
\* no field added for another call; that is also what the handler of the
\* call has seen when it settles and what the middleware see when the
\* result comes back to them.
C22_ContextPerCall ==
    \A r \in 1..Len(reqs) :
        /\ \A o \in 1..Len(reqs) : o # r => reqs[o].ctx # reqs[r].ctx
        /\ heap[reqs[r].ctx].marks = MarksOf(r)
        /\ heap[reqs[r].ctx].method = reqs[r].method
        /\ (reqs[r].phase # "handler" /\ reqs[r].out.kind = "value")
           => reqs[r].seenByHandler = MarksOf(r)
        /\ (reqs[r].phase \in {"settled", "done"} /\ reqs[r].depth < Len(reqs[r].chain))
           => reqs[r].seenOnReturn = MarksOf(r)

\* Two calls of the same method on the same connection, through two
\* middleware: the second arrived while the handler of the first was
\* running, and the first has returned.
C22_Witness ==
    /\ Len(reqs) >= 2
    /\ reqs[1].conn = reqs[2].conn
    /\ reqs[1].n = reqs[2].n
    /\ Len(reqs[1].chain) = 2
    /\ reqs[1].phase = "done"
    /\ reqs[1].out = Value
    /\ reqs[2].phase = "handler"
    /\ Len(reqs[1].seenOnReturn) = 2
    /\ Len(heap[reqs[2].ctx].marks) = 2

\* ------------------------------------------------------ method isolation
\* C23: a call whose middleware all call next has invoked every global
\* middleware and every middleware of its own registration, and no
\* middleware of another registration.
C23_MethodIsolation ==
    \A r \in 1..Len(reqs) :
        /\ Invoked(r) = Range(globalMw) \cup Range(methods[reqs[r].n].mw)
        /\ \A n \in 1..Len(methods) :
              n # reqs[r].n => Range(methods[n].mw) \cap Invoked(r) = {}

\* Two methods with a middleware each under a global middleware, and a
\* returned call of each.
C23_Witness ==
    /\ Len(reqs) >= 2
    /\ Len(methods) = 2
    /\ globalMw # NOOP
    /\ methods[1].mw # NOOP
    /\ methods[2].mw # NOOP
    /\ reqs[1].n = 1 /\ reqs[1].phase = "done" /\ reqs[1].out = Value
    /\ reqs[2].n = 2 /\ reqs[2].phase = "done" /\ reqs[2].out = Value

\* ---------------------------------------------------------------- metrics
\* C24 (as stated): once router.registerMetrics() has been called, the
\* registerMetrics of every middleware then registered has been called
\* once, the global middleware in use() order first, then the middleware of
\* the registrations.
C24_MetricsFanOut ==
    [][(\E i \in 1..Len(hookLog') : hookLog'[i].src = "metrics")
       /\ (\A i \in 1..Len(hookLog) : hookLog[i].src # "metrics")
       => Called({"metrics"}, "registerMetrics")'
             = InUseOrder(Range(globalMw)) \o RegistrationsInOrder(1)]_vars

\* -------------------------------------------------------- limiter destroy
\* C25: for either limiter, after destroy() the map is empty and stays
\* empty; every onrequest call made after it fails with the limiter's
\* *_MIDDLEWARE_DESTROYED code (next is not called, no key is made
\* resident); a further destroy() fails with the same code; and no refill
\* tick comes after the rate limiter's destroy().
C25_LimiterDestroy ==
    [][/\ concDestroyed' => activeMap' = EmptyMap
       /\ rateDestroyed' => tokenMap' = EmptyMap
       /\ (concDestroyed /\ Len(concReq') > Len(concReq))
          => concReq'[Len(concReq')].st = "CONCURRENT_LIMIT_MIDDLEWARE_DESTROYED"
       /\ (concDestroyed /\ concThrown' # concThrown)
          => concThrown' = "CONCURRENT_LIMIT_MIDDLEWARE_DESTROYED"
       /\ (rateDestroyed /\ Len(rateLog') > Len(rateLog))
          => /\ rateLog'[Len(rateLog')].ev \in {"req", "destroy"}
             /\ rateLog'[Len(rateLog')].res = "RATE_LIMIT_MIDDLEWARE_DESTROYED"]_vars

\* A rate limiter destroyed while a key was resident, then asked to serve
\* a request and destroyed again.
C25_Witness ==
    /\ Len(rateLog) = 4
    /\ rateLog[1].ev = "req" /\ rateLog[1].res = "next"
    /\ rateLog[2].ev = "destroy" /\ rateLog[2].res = "returned"
    /\ rateLog[3].ev = "req" /\ rateLog[3].res = "RATE_LIMIT_MIDDLEWARE_DESTROYED"
    /\ rateLog[4].ev = "destroy" /\ rateLog[4].res = "RATE_LIMIT_MIDDLEWARE_DESTROYED"
    /\ rateCapacity >= 2
    /\ tokenMap = EmptyMap

\* ------------------------------------------------------ encoding adapter
\* C26 (as stated): a call whose request could not be decoded ends with a
\* DECODE_ERROR whose cause is the decoder's error, and next was not
\* called; a call whose response could not be encoded ends with an
\* ENCODE_ERROR whose cause is the encoder's error; an error thrown by next
\* is thrown on unchanged.
C26_EncodingErrors ==
    \A i \in 1..Len(encCalls) :
        encCalls[i].phase = "done"
        => /\ (encCalls[i].request /\ encCalls[i].bytes = Bytes(<<>>))
              => /\ encCalls[i].out = [kind |-> "error", code |-> "DECODE_ERROR",
                                       cause |-> CodecError("Out of bounds")]
                 /\ ~encCalls[i].nextCalled
           /\ (encCalls[i].nextCalled /\ encCalls[i].response
                  /\ encCalls[i].next = Text)
              => encCalls[i].out = [kind |-> "error", code |-> "ENCODE_ERROR",
                                    cause |-> CodecError("Invalid value")]
           /\ (encCalls[i].nextCalled /\ Thrown(encCalls[i].next))
              => encCalls[i].out = encCalls[i].next

\* ---------------------------------------------------- rate-limiter memory
\* The place in rateLog of the last request of a key, 0 when there is none.
LastRequest(key) ==
    LET own == RequestsIn(1, Len(rateLog), key)
    IN  IF own = {} THEN 0 ELSE CHOOSE m \in own : \A o \in own : o <= m

\* C27: a key for which no request arrived during the last `capacity` ticks
\* (or more) is absent from the token map, whatever it held before.
C27_IdleKeyEvicted ==
    \A key \in Keys :
        Cardinality(TicksIn(LastRequest(key) + 1, Len(rateLog))) >= rateCapacity
        => key \notin DOMAIN tokenMap

\* At capacity 2 a key spent both tokens and a third request was refused;
\* while another key went on being asked for, the second tick after that
\* evicted it (the first had left it with one token), and the other key,
\* which had one token more, with it.
C27_Witness ==
    /\ rateCapacity = 2
    /\ Len(rateLog) = 7
    /\ \A i \in 1..3 : IsRequest(i, "k1")
    /\ rateLog[3].res = "RATE_LIMIT_EXCEEDED"
    /\ rateLog[4].ev = "tick"
    /\ IsRequest(5, "k2")
    /\ rateLog[6].ev = "tick"
    /\ IsRequest(7, "k2") /\ ~rateLog[7].resident
    /\ "k1" \notin DOMAIN tokenMap

\* ------------------------------------------------- rate-limiter invariant
\* C28: every key in the token map holds at least 0 and fewer than
\* `capacity` tokens: a key with a full bucket is not in the map.
C28_TokenInvariant ==
    \A key \in DOMAIN tokenMap :
        0 <= tokenMap[key] /\ tokenMap[key] < rateCapacity

\* At capacity 2, after requests and a tick, one key holds no token and the
\* other holds one.
C28_Witness ==
    /\ rateCapacity = 2
    /\ DOMAIN tokenMap = {"k1", "k2"}
    /\ tokenMap["k1"] = 0
    /\ tokenMap["k2"] = 1
    /\ TicksIn(1, Len(rateLog)) # {}
    /\ rateLog[Len(rateLog)].res = "RATE_LIMIT_EXCEEDED"

\* ------------------------------------------ concurrency-limiter invariant
\* C29: every key in the active map has a count of at least 1 and at most
\* `capacity`; a key with no admitted request in flight is not in the map;
\* and on a live limiter the count of a key is the number of its admitted
\* requests in flight.
C29_ActiveInvariant ==
    /\ \A key \in DOMAIN activeMap :
          1 <= activeMap[key] /\ activeMap[key] <= concCapacity
    /\ \A key \in Keys :
          /\ InFlight(concReq, key) = {} => key \notin DOMAIN activeMap
          /\ ~concDestroyed
             => Active(activeMap, key) = Cardinality(InFlight(concReq, key))

\* At capacity 2 one key is full and the other has one request in flight,
\* after a request of it has settled.
C29_Witness ==
    /\ concCapacity = 2
    /\ DOMAIN activeMap = {"k1", "k2"}
    /\ activeMap["k1"] = 2
    /\ activeMap["k2"] = 1
    /\ \E i \in 1..Len(concReq) : concReq[i].key = "k2" /\ concReq[i].st = "fulfilled"

\* ------------------------------------------------- rate-limit middleware
\* The tokens a key has: those in the map, a full bucket when it is absent.
Tokens(map, key) == IF key \in DOMAIN map THEN map[key] ELSE rateCapacity

\* The event a step adds to rateLog ("none" when it adds none).
Logged == IF Len(rateLog') > Len(rateLog) THEN rateLog'[Len(rateLog')].ev ELSE "none"
Answered == IF Logged = "req" THEN rateLog'[Len(rateLog')].res ELSE "none"

\* C30: a request that fails with RATE_LIMIT_EXCEEDED leaves the token map
\* as it was; a request handed to next has taken exactly one token of its
\* key and none of another key; and on a live limiter the tokens of a key
\* grow in no step other than a refill tick, by one: not when next()
\* settles, fulfilled or rejected.
C30_TokensSpentNotReturned ==
    [][/\ Answered = "RATE_LIMIT_EXCEEDED" => tokenMap' = tokenMap
       /\ Answered = "next"
          => \A key \in Keys :
                Tokens(tokenMap', key) =
                    IF key = rateLog'[Len(rateLog')].key
                    THEN Tokens(tokenMap, key) - 1
                    ELSE Tokens(tokenMap, key)
       /\ \A key \in Keys :
             (Tokens(tokenMap', key) > Tokens(tokenMap, key) /\ ~rateDestroyed')
             => Logged = "tick" /\ Tokens(tokenMap', key) = Tokens(tokenMap, key) + 1]_vars

\* At capacity 2 a key spent its two tokens, next() of both requests
\* settled, one fulfilled and one rejected, a third request of the key was
\* refused, a tick gave one token back and a request took it.
C30_Witness ==
    /\ rateCapacity = 2
    /\ Len(rateLog) = 7
    /\ \A i \in {1, 2, 5, 7} : IsRequest(i, "k1")
    /\ rateLog[2].res = "next"
    /\ rateLog[3].ev = "settle" /\ rateLog[3].res = "fulfilled"
    /\ rateLog[4].ev = "settle" /\ rateLog[4].res = "rejected"
    /\ rateLog[5].res = "RATE_LIMIT_EXCEEDED"
    /\ rateLog[6].ev = "tick"
    /\ rateLog[7].res = "next"
    /\ tokenMap["k1"] = 0

\* ------------------------------------------- concurrency-limit rejection
\* The request a step adds to concReq was refused for the limit.
RefusedNow ==
    /\ Len(concReq') = Len(concReq) + 1
    /\ concReq'[Len(concReq')].st = "CONCURRENT_LIMIT_EXCEEDED"

\* C31: the step in which a request fails with CONCURRENT_LIMIT_EXCEEDED
\* leaves the active count of every key as it was (next is not called: the
\* request is not in flight; release is not called: no count drops), and a
\* request that was refused never settles next() later.
C31_RejectionLeavesCounts ==
    [][/\ RefusedNow
          => /\ activeMap' = activeMap
             /\ \A key \in Keys :
                   InFlight(concReq', key) = InFlight(concReq, key)
       /\ \A i \in 1..Len(concReq) :
             concReq[i].st = "CONCURRENT_LIMIT_EXCEEDED"
             => concReq'[i] = concReq[i]]_vars

\* At capacity 2 one key is full and the other has one request in flight;
\* a request of the full key has just been refused, and both counts are
\* what they were.
C31_Witness ==
    /\ concCapacity = 2
    /\ Len(concReq) = 4
    /\ concReq[4].key = "k1" /\ concReq[4].st = "CONCURRENT_LIMIT_EXCEEDED"
    /\ concReq[4].pre = 2
    /\ DOMAIN activeMap = {"k1", "k2"}
    /\ activeMap["k1"] = 2 /\ activeMap["k2"] = 1

\* ------------------------------------------------------------ close order
\* The middleware of the registrations from the n-th on, registration by
\* registration, each registration's last-added first.
RECURSIVE RegistrationsCloseOrder(_)
RegistrationsCloseOrder(n) ==
    IF n > Len(methods)
    THEN <<>>
    ELSE Reverse(methods[n].mw) \o RegistrationsCloseOrder(n + 1)

CloseHooks == Called({"close"}, "onclose")

\* The onclose hooks of close() so far lie in the close order: those of the
\* registrations come before those of the global chain; while _close() is
\* at the registrations they are the first ones of the registrations'
\* order; those of the global chain are the first ones of that chain,
\* last-added first, and all of them when _close() has ended; and once
\* _close() has passed the registrations the method map is empty.
CloseOrderSoFar ==
    LET hooks == CloseHooks
        ofRegistrations == SelectSeq(hooks, LAMBDA mw : mw \notin Range(globalMw))
        ofGlobal == SelectSeq(hooks, LAMBDA mw : mw \in Range(globalMw))
    IN  /\ hooks = ofRegistrations \o ofGlobal
        /\ Len(ofGlobal) <= Len(globalMw)
        /\ ofGlobal = SubSeq(Reverse(globalMw), 1, Len(ofGlobal))
        /\ closeTask.phase = "regs"
           => /\ ofGlobal = <<>>
              /\ Len(hooks) <= Len(RegistrationsCloseOrder(1))
              /\ hooks = SubSeq(RegistrationsCloseOrder(1), 1, Len(hooks))
        /\ closeTask.phase \in {"global", "returned", "done"} => methods = <<>>
        /\ closeTask.phase \in {"returned", "done"} => ofGlobal = Reverse(globalMw)

\* C34: the onclose hooks that close() starts come registration by
\* registration in the order of the method map, each registration's
\* middleware last-added first, then the global chain's, last-added first;
\* when _close() drops the registrations every registration hook has been
\* started; and from the drop on, so when close() has finished, the method
\* map is empty.
C34_CloseOrder ==
    /\ []CloseOrderSoFar
    /\ [][(closeTask.phase = "regs" /\ closeTask'.phase \in {"global", "done"})
          => /\ CloseHooks = RegistrationsCloseOrder(1)
             /\ methods' = <<>>]_vars

\* A finished close of a router with the global middleware 1 and two
\* registrations, the first with the middleware 2 and 3 and the second with
\* 4: the onclose order is 3, 2, 4, 1 and the method map is empty.
C34_Witness ==
    /\ closeTask.phase = "done"
    /\ closing = "fulfilled"
    /\ closed
    /\ globalMw = <<1>>
    /\ CloseHooks = <<3, 2, 4, 1>>
    /\ methods = <<>>

\* ------------------------------------------- concurrency-limiter ledger
\* The requests of a key that were admitted, and those of them whose next()
\* has settled.
Admitted(key) ==
    {i \in 1..Len(concReq) :
        concReq[i].key = key /\ concReq[i].st \in {"inflight", "fulfilled", "rejected"}}
Settled(key) ==
    {i \in 1..Len(concReq) :
        concReq[i].key = key /\ concReq[i].st \in {"fulfilled", "rejected"}}

\* C35: on a limiter that is not destroyed, the stored count of every key
\* (0 for an absent key) is the number of its requests admitted so far
\* minus the number of those whose next() has settled, fulfilled or
\* rejected; a refused request counts in neither.
C35_CountIsInFlight ==
    ~concDestroyed
    => \A key \in Keys :
          Active(activeMap, key)
             = Cardinality(Admitted(key)) - Cardinality(Settled(key))

\* At capacity 2, after a request of k1 failed, one succeeded and one was
\* refused, k1 has one request in flight and a stored count of 1.
C35_Witness ==
    /\ ~concDestroyed
    /\ concCapacity = 2
    /\ Len(concReq) = 4
    /\ \A i \in 1..4 : concReq[i].key = "k1"
    /\ concReq[1].st = "rejected"
    /\ concReq[2].st = "fulfilled"
    /\ concReq[3].st = "CONCURRENT_LIMIT_EXCEEDED"
    /\ concReq[4].st = "inflight"
    /\ activeMap["k1"] = 1

\* ------------------------------------------ concurrency-limiter destroy
\* C36: from destroy() on, the active map is empty in every state, also
\* after the next() of a request admitted before destroy() settles (its
\* release finds the key absent and does nothing: no key becomes resident,
\* no count goes below zero), and such a request settles with the outcome
\* of its own next(); no request is admitted any more.
C36_DestroyWithInFlight ==
    [][concDestroyed
       => /\ activeMap = EmptyMap /\ activeMap' = EmptyMap
          /\ concDestroyed'
          /\ \A key \in Keys : InFlight(concReq', key) \subseteq InFlight(concReq, key)
          /\ \A i \in 1..Len(concReq) :
                IF concReq[i].st = "inflight"
                THEN concReq'[i].st \in {"inflight", "fulfilled", "rejected"}
                ELSE concReq'[i] = concReq[i]]_vars

\* At capacity 2 the limiter was destroyed with two requests of k1 in
\* flight (the request that came after destroy() still found both
\* pending); one has since fulfilled and the other rejected, and the map is
\* empty.
C36_Witness ==
    /\ concDestroyed
    /\ Len(concReq) = 3
    /\ \A i \in 1..3 : concReq[i].key = "k1"
    /\ concReq[1].st = "fulfilled"
    /\ concReq[2].st = "rejected"
    /\ concReq[3].st = "CONCURRENT_LIMIT_MIDDLEWARE_DESTROYED"
    /\ concReq[3].pre = 2
    /\ activeMap = EmptyMap

\* ---------------------------------------------------- rate-limiter budget
\* The requests of a key handed to next so far.
AdmittedByRate(key) ==
    {i \in 1..Len(rateLog) : IsRequest(i, key) /\ rateLog[i].res = "next"}

\* C37: at every instant the number of requests of a key admitted since
\* the limiter was made is at most the capacity plus the number of ticks
\* that have fired so far, and at most the capacity before the first tick.
C37_AdmissionBudget ==
    \A key \in Keys :
        Cardinality(AdmittedByRate(key))
           <= rateCapacity + Cardinality(TicksIn(1, Len(rateLog)))

\* At capacity 2 with two ticks, k1 has had four requests admitted (the
\* whole budget) and one refused.
C37_Witness ==
    /\ ~rateDestroyed
    /\ rateCapacity = 2
    /\ Cardinality(TicksIn(1, Len(rateLog))) = 2
    /\ Cardinality(AdmittedByRate("k1")) = 4
    /\ \E i \in 1..Len(rateLog) :
          IsRequest(i, "k1") /\ rateLog[i].res = "RATE_LIMIT_EXCEEDED"

\* ---------------------------------------------------------- the counters
\* No call is between its arrival and the return or throw of its respond
\* callback.
AtRest(calls) == \A r \in 1..Len(calls) : calls[r].phase = "done"

\* Every middleware has called its next at most once in each call.  The
\* middleware that calls next again is also the only one here that does
\* not pass on an error of its next.
NextOnce(calls) == \A r \in 1..Len(calls) : NextCalledAgain(calls[r]) = 0

\* C38 (as stated): no step lowers nrRequests, nrErrors or
\* nrHandlerErrors; at every instant nrErrors <= nrRequests and
\* nrHandlerErrors <= nrRequests; and when no call is in flight and no
\* middleware has swallowed an error of its next, nrHandlerErrors <=
\* nrErrors.
C38_CounterOrder ==
    [][/\ stats'.nrRequests >= stats.nrRequests
       /\ stats'.nrErrors >= stats.nrErrors
       /\ stats'.nrHandlerErrors >= stats.nrHandlerErrors
       /\ stats'.nrErrors <= stats'.nrRequests
       /\ stats'.nrHandlerErrors <= stats'.nrRequests
       /\ (AtRest(reqs') /\ NextOnce(reqs'))
          => stats'.nrHandlerErrors <= stats'.nrErrors]_vars

\* C38 (amended): no step lowers a counter; at every instant nrErrors <=
\* nrRequests; as long as every middleware has called its next at most once
\* per call, nrHandlerErrors <= nrRequests; and when moreover no call is in
\* flight, nrHandlerErrors <= nrErrors.
C38_CounterOrderNextOnce ==
    [][/\ stats'.nrRequests >= stats.nrRequests
       /\ stats'.nrErrors >= stats.nrErrors
       /\ stats'.nrHandlerErrors >= stats.nrHandlerErrors
       /\ stats'.nrErrors <= stats'.nrRequests
       /\ NextOnce(reqs') => stats'.nrHandlerErrors <= stats'.nrRequests
       /\ (AtRest(reqs') /\ NextOnce(reqs'))
          => stats'.nrHandlerErrors <= stats'.nrErrors]_vars

\* A call that went in through two middleware, whose handler threw, has
\* come back out as an error with no next called twice: each counter is 1.
C38_Witness ==
    /\ Len(reqs) = 1
    /\ AtRest(reqs)
    /\ NextOnce(reqs)
    /\ Len(reqs[1].chain) = 2
    /\ reqs[1].out = HookError("handler", 0)
    /\ stats = [nrRequests |-> 1, nrErrors |-> 1, nrHandlerErrors |-> 1]

====
